---- MODULE Spec2Model ----
(***************************************************************************)
(* A model of the CRDT library (danburkert/crdt): the counters, registers  *)
(* and sets of src/src, each replicated over a small set of replicas.      *)
(*                                                                         *)
(* Every data type has its own specification (SpecGCounter, SpecTpSet,     *)
(* ...).  A specification drives the variables of its own type and keeps   *)
(* the variables of the other types at Idle.                               *)
(*                                                                         *)
(* A Rust map (TrieMap, HashMap) is a TLA+ function whose DOMAIN is the    *)
(* set of keys present; Option::None and "no entry" are absence from the   *)
(* DOMAIN.  u64 / i64 values stay far below their limits under the bounds  *)
(* of the model, so the arithmetic is the unbounded one (the library's     *)
(* documentation calls overflow undefined behaviour and the claims checked *)
(* here exclude it).                                                       *)
(***************************************************************************)
EXTENDS Integers, Sequences, FiniteSets, TLC

VARIABLES
    gc,         \* GCounter: replica -> [replica_id, counts]
    gcInbox,    \* GCounter: replica -> sequence of GCounterIncrement not yet applied there
    gcAmounts,  \* GCounter: the amounts passed to increment, in call order (history)
    pc,         \* PnCounter: replica -> [replica_id, counts]
    pcInbox,    \* PnCounter: replica -> sequence of PnCounterIncrement not yet applied there
    pcAmounts,  \* PnCounter: the amounts passed to increment, in call order (history)
    tp,         \* TpSet: replica -> [elements]
    tpLast,     \* TpSet: the last operation performed (history)
    lw,         \* LwwSet: replica -> [elements]
    lwLast,     \* LwwSet: the last operation performed (history)
    ps,         \* PnSet: replica -> [replica_id, elements]
    psHist,     \* PnSet: replica -> sequence of its own insert/remove calls (history)
    psSeen,     \* PnSet: replica x -> replica r -> how many of r's calls x has received
    paBase,     \* PnSet apply run: the starting state
    paCur,      \* PnSet apply run: the state after the operations applied so far
    paApplied,  \* PnSet apply run: the set of operations applied so far (history)
    reg,        \* LwwRegister: the register
    regInit,    \* LwwRegister: the register's initial state (history)
    regPool,    \* LwwRegister: the set operations that may be delivered
    regApplied, \* LwwRegister: the operations applied so far (history)
    lr,         \* LwwRegister replicas: replica -> [value, transaction_id]
    lrLast,     \* LwwRegister replicas: the last call, its arguments and result (history)
    gmIn,       \* GCounter merge run: the counters to merge, <<a, b, c>>
    gmAcc,      \* GCounter merge run: the counter the inputs are folded into
    gmDone,     \* GCounter merge run: the indices of gmIn merged so far, in order
    gv,         \* GCounter, state-based: replica -> [replica_id, counts]
    gvHist,     \* GCounter, state-based: replica -> the amounts of its increments (history)
    gvSeen,     \* GCounter, state-based: replica x -> replica r -> how many of r's increments x has received
    idr,         \* replica-id run: [kind, a, b], two replicas of one type
    idrSteps,    \* replica-id run: the number of operations applied so far
    gs,         \* GSet: replica -> [elements]
    gsLast,     \* GSet: the last call, its arguments and result (history)
    taBase,     \* TpSet apply run: the starting state
    taCur,      \* TpSet apply run: the state after the operations applied so far
    taApplied,  \* TpSet apply run: the set of operations applied so far (history)
    laBase,     \* LwwSet apply run: the starting state
    laCur,      \* LwwSet apply run: the state after the operations applied so far
    laApplied,  \* LwwSet apply run: the set of operations applied so far (history)
    pv,         \* PnCounter, state-based: replica -> [replica_id, counts]
    pvHist,     \* PnCounter, state-based: replica -> the amounts of its increments (history)
    pvSeen,     \* PnCounter, state-based: replica x -> replica r -> how many of r's increments x has received
    pmIn,       \* PnSet merge run: the starting set and the sets to merge, <<crdt, x, y>>
    pmAcc,      \* PnSet merge run: the set the others are folded into
    pmDone,     \* PnSet merge run: the indices of pmIn merged so far, in order
    pxSrc,      \* PnSet, mixed replication: the replica that is written
    pxOps,      \* PnSet, mixed replication: the operations its calls returned, in call order
    pxRecv      \* PnSet, mixed replication: receiver -> [state, got, applied, merged]

gcVars == <<gc, gcInbox, gcAmounts>>
pcVars == <<pc, pcInbox, pcAmounts>>
tpVars == <<tp, tpLast>>
lwVars == <<lw, lwLast>>
psVars == <<ps, psHist, psSeen>>
paVars == <<paBase, paCur, paApplied>>
regVars == <<reg, regInit, regPool, regApplied>>
lrVars == <<lr, lrLast>>
gmVars == <<gmIn, gmAcc, gmDone>>
gvVars == <<gv, gvHist, gvSeen>>
idrVars == <<idr, idrSteps>>
gsVars == <<gs, gsLast>>
taVars == <<taBase, taCur, taApplied>>
laVars == <<laBase, laCur, laApplied>>
pvVars == <<pv, pvHist, pvSeen>>
pmVars == <<pmIn, pmAcc, pmDone>>
pxVars == <<pxSrc, pxOps, pxRecv>>
vars == <<gcVars, pcVars, tpVars, lwVars, psVars, paVars, regVars,
          lrVars, gmVars, gvVars, idrVars, gsVars, taVars, laVars, pvVars,
          pmVars, pxVars>>

Idle == "idle"

\* The variables each data type's specification leaves alone.
gcOthers == <<pcVars, tpVars, lwVars, psVars, paVars, regVars,
               lrVars, gmVars, gvVars, idrVars, gsVars,
               taVars, laVars, pvVars, pmVars,
               pxVars>>
pcOthers == <<gcVars, tpVars, lwVars, psVars, paVars, regVars,
               lrVars, gmVars, gvVars, idrVars, gsVars,
               taVars, laVars, pvVars, pmVars,
               pxVars>>
tpOthers == <<gcVars, pcVars, lwVars, psVars, paVars, regVars,
               lrVars, gmVars, gvVars, idrVars, gsVars,
               taVars, laVars, pvVars, pmVars,
               pxVars>>
lwOthers == <<gcVars, pcVars, tpVars, psVars, paVars, regVars,
               lrVars, gmVars, gvVars, idrVars, gsVars,
               taVars, laVars, pvVars, pmVars,
               pxVars>>
psOthers == <<gcVars, pcVars, tpVars, lwVars, paVars, regVars,
               lrVars, gmVars, gvVars, idrVars, gsVars,
               taVars, laVars, pvVars, pmVars,
               pxVars>>
paOthers == <<gcVars, pcVars, tpVars, lwVars, psVars, regVars,
               lrVars, gmVars, gvVars, idrVars, gsVars,
               taVars, laVars, pvVars, pmVars,
               pxVars>>
regOthers == <<gcVars, pcVars, tpVars, lwVars, psVars, paVars,
                lrVars, gmVars, gvVars, idrVars, gsVars,
                taVars, laVars, pvVars, pmVars,
               pxVars>>
lrOthers == <<gcVars, pcVars, tpVars, lwVars, psVars, paVars, regVars,
               gmVars, gvVars, idrVars, gsVars,
               taVars, laVars, pvVars, pmVars,
               pxVars>>
gmOthers == <<gcVars, pcVars, tpVars, lwVars, psVars, paVars, regVars,
               lrVars, gvVars, idrVars, gsVars,
               taVars, laVars, pvVars, pmVars,
               pxVars>>
gvOthers == <<gcVars, pcVars, tpVars, lwVars, psVars, paVars, regVars,
               lrVars, gmVars, idrVars, gsVars,
               taVars, laVars, pvVars, pmVars,
               pxVars>>
idrOthers == <<gcVars, pcVars, tpVars, lwVars, psVars, paVars, regVars,
               lrVars, gmVars, gvVars, gsVars,
                taVars, laVars, pvVars, pmVars,
               pxVars>>
gsOthers == <<gcVars, pcVars, tpVars, lwVars, psVars, paVars, regVars,
               lrVars, gmVars, gvVars, idrVars,
               taVars, laVars, pvVars, pmVars,
               pxVars>>
taOthers == <<gcVars, pcVars, tpVars, lwVars, psVars, paVars, regVars,
               lrVars, gmVars, gvVars, idrVars, gsVars,
               laVars, pvVars, pmVars,
               pxVars>>
laOthers == <<gcVars, pcVars, tpVars, lwVars, psVars, paVars, regVars,
               lrVars, gmVars, gvVars, idrVars, gsVars,
               taVars, pvVars, pmVars,
               pxVars>>
pvOthers == <<gcVars, pcVars, tpVars, lwVars, psVars, paVars, regVars,
               lrVars, gmVars, gvVars, idrVars, gsVars,
               taVars, laVars, pmVars, pxVars>>
pmOthers == <<gcVars, pcVars, tpVars, lwVars, psVars, paVars, regVars,
               lrVars, gmVars, gvVars, idrVars, gsVars,
               taVars, laVars, pvVars, pxVars>>
pxOthers == <<gcVars, pcVars, tpVars, lwVars, psVars, paVars, regVars,
               lrVars, gmVars, gvVars, idrVars, gsVars,
               taVars, laVars, pvVars, pmVars>>

----------------------------------------------------------------------------
(* Bounds and the small sets inputs are drawn from. *)

\* The replicas of one logical CRDT; replica r is created with replica id r.
Replicas == {1, 2}

\* The elements sets hold.
Elements == {1, 2}

\* Largest transaction id passed to a set or register.
MaxTid == 2

TransactionIds == 0..MaxTid

\* Largest number of insert / remove calls in one run of a PnSet.
MaxSetCalls == 3

\* Largest p and n of the Pn carried by a PnSetOp delivered to a PnSet.
MaxPn == 1

\* Largest number of distinct operations applied in one run of apply calls.
MaxApplied == 2

\* The values a register holds.
Values == {"a", "b"}

\* Largest amount passed to one GCounter / PnCounter increment call.
MaxAmount == 2

\* Largest number of increment calls in one run of a counter.
MaxIncrements == 2

----------------------------------------------------------------------------
(* Maps and options. *)

\* Option<T> of a returned operation.
None == [is_some |-> FALSE]

Some(x) == [is_some |-> TRUE, value |-> x]

EmptyMap == [k \in {} |-> TRUE]

MapPut(m, key, value) ==
    [k \in DOMAIN m \cup {key} |-> IF k = key THEN value ELSE m[k]]

Max(a, b) == IF a >= b THEN a ELSE b

RECURSIVE SumOver(_, _)
\* The sum of m[k] over the keys k in keys.
SumOver(m, keys) ==
    IF keys = {} THEN 0
    ELSE LET k == CHOOSE x \in keys : TRUE
         IN m[k] + SumOver(m, keys \ {k})

RECURSIVE SumSeq(_)
SumSeq(s) == IF s = << >> THEN 0 ELSE Head(s) + SumSeq(Tail(s))

RemoveAt(s, i) == SubSeq(s, 1, i - 1) \o SubSeq(s, i + 1, Len(s))

----------------------------------------------------------------------------
(* GCounter: src/src/counter/gcounter.rs *)

GCounter_new(replica_id) == [replica_id |-> replica_id, counts |-> EmptyMap]

GCounter_count(self) == SumOver(self.counts, DOMAIN self.counts)

GCounterIncrement(replica_id, amount) == [replica_id |-> replica_id, amount |-> amount]

\* fn apply: the operation's amount is added to the entry of its replica.
GCounter_apply(self, operation) ==
    LET count == IF operation.replica_id \in DOMAIN self.counts
                 THEN self.counts[operation.replica_id] + operation.amount
                 ELSE operation.amount
    IN [self EXCEPT !.counts = MapPut(self.counts, operation.replica_id, count)]

\* A faulty merge, to test the sensitivity of the properties below: the
\* counts of other are added to those of self, as if other were a delta.
GCounter_merge_adding(self, other) ==
    [self EXCEPT !.counts =
        [r \in DOMAIN self.counts \cup DOMAIN other.counts |->
            (IF r \in DOMAIN self.counts THEN self.counts[r] ELSE 0)
                + (IF r \in DOMAIN other.counts THEN other.counts[r] ELSE 0)]]

\* A faulty merge, to test the sensitivity of the properties below: every
\* entry of other replaces the entry of self.
GCounter_merge_overwriting(self, other) ==
    [self EXCEPT !.counts =
        [r \in DOMAIN self.counts \cup DOMAIN other.counts |->
            IF r \in DOMAIN other.counts THEN other.counts[r] ELSE self.counts[r]]]

\* fn merge: every entry of other is inserted, as the maximum where self has one.
GCounter_merge(self, other) ==
    [self EXCEPT !.counts =
        [r \in DOMAIN self.counts \cup DOMAIN other.counts |->
            IF r \in DOMAIN other.counts
            THEN IF r \in DOMAIN self.counts
                 THEN Max(self.counts[r], other.counts[r])
                 ELSE other.counts[r]
            ELSE self.counts[r]]]

\* fn increment: builds the operation from the amount of this call, applies it
\* locally and returns it.
GCounter_increment(self, amount) ==
    LET operation == GCounterIncrement(self.replica_id, amount)
    IN [state |-> GCounter_apply(self, operation), operation |-> operation]

\* A faulty eq, to test the sensitivity of the properties below: the whole
\* struct is compared, as a derived PartialEq would.
GCounter_eq_with_id(self, other) ==
    self.replica_id = other.replica_id /\ self.counts = other.counts

\* impl PartialEq: the replica id is not compared.
GCounter_eq(self, other) == self.counts = other.counts

GCInit ==
    /\ gc = [r \in Replicas |-> GCounter_new(r)]
    /\ gcInbox = [r \in Replicas |-> << >>]
    /\ gcAmounts = << >>
    /\ pc = Idle /\ pcInbox = Idle /\ pcAmounts = Idle
    /\ tp = Idle /\ tpLast = Idle
    /\ lw = Idle /\ lwLast = Idle
    /\ ps = Idle /\ psHist = Idle /\ psSeen = Idle
    /\ paBase = Idle /\ paCur = Idle /\ paApplied = Idle
    /\ reg = Idle /\ regInit = Idle /\ regPool = Idle /\ regApplied = Idle
    /\ lr = Idle /\ lrLast = Idle
    /\ gmIn = Idle /\ gmAcc = Idle /\ gmDone = Idle
    /\ gv = Idle /\ gvHist = Idle /\ gvSeen = Idle
    /\ idr = Idle /\ idrSteps = Idle
    /\ gs = Idle /\ gsLast = Idle
    /\ taBase = Idle /\ taCur = Idle /\ taApplied = Idle
    /\ laBase = Idle /\ laCur = Idle /\ laApplied = Idle
    /\ pv = Idle /\ pvHist = Idle /\ pvSeen = Idle
    /\ pmIn = Idle /\ pmAcc = Idle /\ pmDone = Idle
    /\ pxSrc = Idle /\ pxOps = Idle /\ pxRecv = Idle

\* A replica increments; the returned operation is sent to every other replica.
GCIncrement(r, amount) ==
    /\ Len(gcAmounts) < MaxIncrements
    /\ LET res == GCounter_increment(gc[r], amount)
       IN /\ gc' = [gc EXCEPT ![r] = res.state]
          /\ gcInbox' = [s \in Replicas |->
                            IF s = r THEN gcInbox[s]
                            ELSE Append(gcInbox[s], res.operation)]
    /\ gcAmounts' = Append(gcAmounts, amount)
    /\ UNCHANGED gcOthers

\* One pending operation (any of them: delivery is unordered) is applied, once.
GCDeliver(r, i) ==
    /\ i \in 1..Len(gcInbox[r])
    /\ gc' = [gc EXCEPT ![r] = GCounter_apply(gc[r], gcInbox[r][i])]
    /\ gcInbox' = [gcInbox EXCEPT ![r] = RemoveAt(gcInbox[r], i)]
    /\ UNCHANGED <<gcAmounts, gcOthers>>

\* State-based replication: r merges a copy of s.
GCMerge(r, s) ==
    /\ r # s
    /\ gc' = [gc EXCEPT ![r] = GCounter_merge(gc[r], gc[s])]
    /\ UNCHANGED <<gcInbox, gcAmounts, gcOthers>>

GCNext ==
    \/ \E r \in Replicas, amount \in 0..MaxAmount : GCIncrement(r, amount)
    \/ \E r \in Replicas, i \in 1..MaxIncrements : GCDeliver(r, i)
    \/ \E r \in Replicas, s \in Replicas : GCMerge(r, s)

SpecGCounter == GCInit /\ [][GCNext]_vars

\* C1: GCounter.apply is idempotent: for every replica state c and every
\* operation op returned by an increment (here: every operation in flight),
\* applying op to c twice gives a state equal to applying it once.
C1_GCounterApplyIdempotent ==
    \A r \in Replicas, s \in Replicas :
        \A i \in 1..Len(gcInbox[s]) :
            LET op == gcInbox[s][i]
                once == GCounter_apply(gc[r], op)
            IN GCounter_eq(GCounter_apply(once, op), once)

\* C2: mixing state-based and operation-based replication: once every
\* returned operation has been delivered (exactly once) to every other
\* replica, every replica's count() is the sum of all amounts ever passed to
\* increment, whatever merges happened in between.
C2_GCounterMixedReplication ==
    (\A r \in Replicas : gcInbox[r] = << >>) =>
        \A r \in Replicas : GCounter_count(gc[r]) = SumSeq(gcAmounts)

----------------------------------------------------------------------------
(* PnCounter: src/src/counter/pncounter.rs.  A count is the pair <<p, n>>. *)

Abs(x) == IF x < 0 THEN -x ELSE x

PnCounter_new(replica_id) == [replica_id |-> replica_id, counts |-> EmptyMap]

PnCounter_count(self) ==
    SumOver([r \in DOMAIN self.counts |-> self.counts[r][1] - self.counts[r][2]],
            DOMAIN self.counts)

PnCounterIncrement(replica_id, amount) == [replica_id |-> replica_id, amount |-> amount]

\* A faulty derivation, to test the sensitivity of the properties below: the
\* sign of the amount is dropped and every amount counts as an increment.
PnCounter_amounts_unsigned(operation) == <<Abs(operation.amount), 0>>

\* The <<p_amount, n_amount>> pair fn apply derives from the operation's amount.
PnCounter_amounts(operation) ==
    IF operation.amount > 0
    THEN <<operation.amount, 0>>
    ELSE <<0, Abs(operation.amount)>>

\* fn apply: the operation's amounts are added to the entry of its replica.
PnCounter_apply(self, operation) ==
    LET pn == PnCounter_amounts(operation)
        count == IF operation.replica_id \in DOMAIN self.counts
                 THEN <<self.counts[operation.replica_id][1] + pn[1],
                        self.counts[operation.replica_id][2] + pn[2]>>
                 ELSE pn
    IN [self EXCEPT !.counts = MapPut(self.counts, operation.replica_id, count)]

\* fn merge: every entry of other is inserted, as the pointwise maximum where
\* self has one.
PnCounter_merge(self, other) ==
    [self EXCEPT !.counts =
        [r \in DOMAIN self.counts \cup DOMAIN other.counts |->
            IF r \in DOMAIN other.counts
            THEN IF r \in DOMAIN self.counts
                 THEN <<Max(self.counts[r][1], other.counts[r][1]),
                        Max(self.counts[r][2], other.counts[r][2])>>
                 ELSE other.counts[r]
            ELSE self.counts[r]]]

PnCounter_increment(self, amount) ==
    LET operation == PnCounterIncrement(self.replica_id, amount)
    IN [state |-> PnCounter_apply(self, operation), operation |-> operation]

\* impl PartialEq: the replica id is not compared.
PnCounter_eq(self, other) == self.counts = other.counts

PCInit ==
    /\ pc = [r \in Replicas |-> PnCounter_new(r)]
    /\ pcInbox = [r \in Replicas |-> << >>]
    /\ pcAmounts = << >>
    /\ gc = Idle /\ gcInbox = Idle /\ gcAmounts = Idle
    /\ tp = Idle /\ tpLast = Idle
    /\ lw = Idle /\ lwLast = Idle
    /\ ps = Idle /\ psHist = Idle /\ psSeen = Idle
    /\ paBase = Idle /\ paCur = Idle /\ paApplied = Idle
    /\ reg = Idle /\ regInit = Idle /\ regPool = Idle /\ regApplied = Idle
    /\ lr = Idle /\ lrLast = Idle
    /\ gmIn = Idle /\ gmAcc = Idle /\ gmDone = Idle
    /\ gv = Idle /\ gvHist = Idle /\ gvSeen = Idle
    /\ idr = Idle /\ idrSteps = Idle
    /\ gs = Idle /\ gsLast = Idle
    /\ taBase = Idle /\ taCur = Idle /\ taApplied = Idle
    /\ laBase = Idle /\ laCur = Idle /\ laApplied = Idle
    /\ pv = Idle /\ pvHist = Idle /\ pvSeen = Idle
    /\ pmIn = Idle /\ pmAcc = Idle /\ pmDone = Idle
    /\ pxSrc = Idle /\ pxOps = Idle /\ pxRecv = Idle

\* A replica increments (or decrements); the returned operation is sent to
\* every other replica.
PCIncrement(r, amount) ==
    /\ Len(pcAmounts) < MaxIncrements
    /\ LET res == PnCounter_increment(pc[r], amount)
       IN /\ pc' = [pc EXCEPT ![r] = res.state]
          /\ pcInbox' = [s \in Replicas |->
                            IF s = r THEN pcInbox[s]
                            ELSE Append(pcInbox[s], res.operation)]
    /\ pcAmounts' = Append(pcAmounts, amount)
    /\ UNCHANGED pcOthers

PCDeliver(r, i) ==
    /\ i \in 1..Len(pcInbox[r])
    /\ pc' = [pc EXCEPT ![r] = PnCounter_apply(pc[r], pcInbox[r][i])]
    /\ pcInbox' = [pcInbox EXCEPT ![r] = RemoveAt(pcInbox[r], i)]
    /\ UNCHANGED <<pcAmounts, pcOthers>>

PCMerge(r, s) ==
    /\ r # s
    /\ pc' = [pc EXCEPT ![r] = PnCounter_merge(pc[r], pc[s])]
    /\ UNCHANGED <<pcInbox, pcAmounts, pcOthers>>

PCNext ==
    \/ \E r \in Replicas, amount \in (-MaxAmount)..MaxAmount : PCIncrement(r, amount)
    \/ \E r \in Replicas, i \in 1..MaxIncrements : PCDeliver(r, i)
    \/ \E r \in Replicas, s \in Replicas : PCMerge(r, s)

SpecPnCounter == PCInit /\ [][PCNext]_vars

\* The <<p, n>> a replica holds for replica id r; <<0, 0>> when it has no entry.
PnCounter_slot(self, r) == IF r \in DOMAIN self.counts THEN self.counts[r] ELSE <<0, 0>>

\* C3: PnCounter.apply(op) reduces to Pn::merge on the slot of op.replica_id:
\* after apply that slot is the pointwise maximum of its previous <<p, n>> and
\* the <<p, n>> carried by the operation, every other slot is unchanged, and
\* applying the same operation again leaves the state unchanged.
C3_PnCounterApplyIsPnMerge ==
    \A r \in Replicas, s \in Replicas :
        \A i \in 1..Len(pcInbox[s]) :
            LET op == pcInbox[s][i]
                carried == PnCounter_amounts(op)
                before == PnCounter_slot(pc[r], op.replica_id)
                once == PnCounter_apply(pc[r], op)
            IN /\ once.counts[op.replica_id] =
                      <<Max(before[1], carried[1]), Max(before[2], carried[2])>>
               /\ \A x \in DOMAIN pc[r].counts \ {op.replica_id} :
                      once.counts[x] = pc[r].counts[x]
               /\ PnCounter_eq(PnCounter_apply(once, op), once)

----------------------------------------------------------------------------
(* TpSet: src/src/set/tpset.rs.  elements maps an element to is_present. *)

TpSet_new == [elements |-> EmptyMap]

TpSetOp_Insert(element) == [kind |-> "Insert", element |-> element]
TpSetOp_Remove(element) == [kind |-> "Remove", element |-> element]
TpSetOps == {TpSetOp_Insert(e) : e \in Elements} \cup {TpSetOp_Remove(e) : e \in Elements}

\* A faulty insert, to test the sensitivity of the properties below: only a
\* present entry stops the insert, so a removed element can be inserted again.
TpSet_insert_unless_present(self, element) ==
    IF element \in DOMAIN self.elements /\ self.elements[element]
    THEN [state |-> self, result |-> None]
    ELSE [state |-> [self EXCEPT !.elements = MapPut(self.elements, element, TRUE)],
          result |-> Some(TpSetOp_Insert(element))]

\* fn insert: a no-op returning None when the element has any entry.
TpSet_insert(self, element) ==
    IF element \in DOMAIN self.elements
    THEN [state |-> self, result |-> None]
    ELSE [state |-> [self EXCEPT !.elements = MapPut(self.elements, element, TRUE)],
          result |-> Some(TpSetOp_Insert(element))]

\* A faulty remove, to test the sensitivity of the properties below: an
\* element with no entry is left alone, as in a plain set.
TpSet_remove_only_present(self, element) ==
    IF element \in DOMAIN self.elements /\ self.elements[element]
    THEN [state |-> [self EXCEPT !.elements = MapPut(self.elements, element, FALSE)],
          result |-> Some(TpSetOp_Remove(element))]
    ELSE [state |-> self, result |-> None]

\* fn remove: Vacant or Occupied(true) becomes false; Occupied(false) is a no-op.
TpSet_remove(self, element) ==
    IF element \notin DOMAIN self.elements \/ self.elements[element]
    THEN [state |-> [self EXCEPT !.elements = MapPut(self.elements, element, FALSE)],
          result |-> Some(TpSetOp_Remove(element))]
    ELSE [state |-> self, result |-> None]

TpSet_contains(self, value) ==
    IF value \in DOMAIN self.elements THEN self.elements[value] ELSE FALSE

TpSet_len(self) == Cardinality({e \in DOMAIN self.elements : self.elements[e]})

\* A faulty merge, to test the sensitivity of the properties below: every entry
\* of other overwrites, so a present marker overrides a removal.
TpSet_merge_overwriting(self, other) ==
    [self EXCEPT !.elements =
        [e \in DOMAIN self.elements \cup DOMAIN other.elements |->
            IF e \in DOMAIN other.elements THEN other.elements[e]
            ELSE self.elements[e]]]

\* fn merge: a present entry of other is inserted only where self has no entry;
\* a removed entry of other always overwrites.
TpSet_merge(self, other) ==
    [self EXCEPT !.elements =
        [e \in DOMAIN self.elements \cup DOMAIN other.elements |->
            IF e \in DOMAIN other.elements
            THEN IF other.elements[e]
                 THEN IF e \in DOMAIN self.elements THEN self.elements[e] ELSE TRUE
                 ELSE FALSE
            ELSE self.elements[e]]]

\* A faulty apply, to test the sensitivity of the properties below: the
\* operation overwrites the entry, so the operation applied last wins.
TpSet_apply_overwriting(self, operation) ==
    [self EXCEPT !.elements =
        MapPut(self.elements, operation.element, operation.kind = "Insert")]

TpSet_apply(self, operation) ==
    IF operation.kind = "Insert"
    THEN TpSet_insert(self, operation.element).state
    ELSE TpSet_remove(self, operation.element).state

TpSet_eq(self, other) == self.elements = other.elements

\* The first loop of partial_cmp: self_is_greater stays true unless some entry
\* of other is present with no entry in self, or removed and not removed in self.
TpSet_self_is_greater(self, other) ==
    \A e \in DOMAIN other.elements :
        IF other.elements[e]
        THEN e \in DOMAIN self.elements
        ELSE e \in DOMAIN self.elements /\ self.elements[e] = FALSE

\* impl PartialOrd: partial_cmp, as "Equal", "Less", "Greater" or "None".
TpSet_partial_cmp(self, other) ==
    IF self.elements = other.elements THEN "Equal"
    ELSE LET self_is_greater == TpSet_self_is_greater(self, other)
             other_is_greater == TpSet_self_is_greater(other, self)
         IN IF self_is_greater /\ other_is_greater THEN "None"
            ELSE IF self_is_greater THEN "Greater"
            ELSE "Less"

TPInit ==
    /\ tp = [r \in Replicas |-> TpSet_new]
    /\ tpLast = [op |-> "new"]
    /\ gc = Idle /\ gcInbox = Idle /\ gcAmounts = Idle
    /\ pc = Idle /\ pcInbox = Idle /\ pcAmounts = Idle
    /\ lw = Idle /\ lwLast = Idle
    /\ ps = Idle /\ psHist = Idle /\ psSeen = Idle
    /\ paBase = Idle /\ paCur = Idle /\ paApplied = Idle
    /\ reg = Idle /\ regInit = Idle /\ regPool = Idle /\ regApplied = Idle
    /\ lr = Idle /\ lrLast = Idle
    /\ gmIn = Idle /\ gmAcc = Idle /\ gmDone = Idle
    /\ gv = Idle /\ gvHist = Idle /\ gvSeen = Idle
    /\ idr = Idle /\ idrSteps = Idle
    /\ gs = Idle /\ gsLast = Idle
    /\ taBase = Idle /\ taCur = Idle /\ taApplied = Idle
    /\ laBase = Idle /\ laCur = Idle /\ laApplied = Idle
    /\ pv = Idle /\ pvHist = Idle /\ pvSeen = Idle
    /\ pmIn = Idle /\ pmAcc = Idle /\ pmDone = Idle
    /\ pxSrc = Idle /\ pxOps = Idle /\ pxRecv = Idle

TPInsert(r, e) ==
    /\ tp' = [tp EXCEPT ![r] = TpSet_insert(tp[r], e).state]
    /\ tpLast' = [op |-> "insert", r |-> r, element |-> e,
                  result |-> TpSet_insert(tp[r], e).result]
    /\ UNCHANGED tpOthers

TPRemove(r, e) ==
    /\ tp' = [tp EXCEPT ![r] = TpSet_remove(tp[r], e).state]
    /\ tpLast' = [op |-> "remove", r |-> r, element |-> e,
                  result |-> TpSet_remove(tp[r], e).result]
    /\ UNCHANGED tpOthers

\* Operation-based replication: any operation may arrive, any number of times.
TPApply(r, operation) ==
    /\ tp' = [tp EXCEPT ![r] = TpSet_apply(tp[r], operation)]
    /\ tpLast' = [op |-> "apply", r |-> r, operation |-> operation]
    /\ UNCHANGED tpOthers

\* State-based replication: r merges a copy of s.
TPMerge(r, s) ==
    /\ r # s
    /\ tp' = [tp EXCEPT ![r] = TpSet_merge(tp[r], tp[s])]
    /\ tpLast' = [op |-> "merge", r |-> r, s |-> s, before |-> tp[r]]
    /\ UNCHANGED tpOthers

TPNext ==
    \/ \E r \in Replicas, e \in Elements : TPInsert(r, e)
    \/ \E r \in Replicas, e \in Elements : TPRemove(r, e)
    \/ \E r \in Replicas, operation \in TpSetOps : TPApply(r, operation)
    \/ \E r \in Replicas, s \in Replicas : TPMerge(r, s)

SpecTpSet == TPInit /\ [][TPNext]_vars

TpSet_removed(self, e) == e \in DOMAIN self.elements /\ self.elements[e] = FALSE

\* C4: TpSet removal is permanent: once an element's entry is false, no step
\* (insert, remove, apply, merge with any other state) makes the entry true
\* again or contains(e) true.
C4_TpSetRemovalPermanent ==
    [][\A r \in Replicas, e \in Elements :
          TpSet_removed(tp[r], e) =>
              /\ TpSet_removed(tp'[r], e)
              /\ ~TpSet_contains(tp'[r], e)]_vars

\* Witness of C4: a replica has just merged a state that holds an element as
\* present, and its own entry for the element is still the removal.
C4_Witness ==
    /\ tpLast.op = "merge"
    /\ \E e \in Elements :
          /\ TpSet_removed(tp[tpLast.r], e)
          /\ TpSet_contains(tp[tpLast.s], e)

\* C5: TpSet.partial_cmp returns None when the two sets have diverged (each
\* holds an element the other has no entry for), in both directions, and it is
\* never the case that a < b and b < a both hold.
C5_TpSetDivergedIsNone ==
    \A r \in Replicas, s \in Replicas :
        LET a == tp[r]
            b == tp[s]
        IN /\ ( /\ DOMAIN a.elements \ DOMAIN b.elements # {}
                /\ DOMAIN b.elements \ DOMAIN a.elements # {} )
              => /\ TpSet_partial_cmp(a, b) = "None"
                 /\ TpSet_partial_cmp(b, a) = "None"
           /\ ~(TpSet_partial_cmp(a, b) = "Less" /\ TpSet_partial_cmp(b, a) = "Less")

----------------------------------------------------------------------------
(* LwwSet: src/src/set/lwwset.rs.  elements maps an element to             *)
(* <<is_present, transaction id>>.                                         *)

LwwSet_new == [elements |-> EmptyMap]

LwwSetOp_Insert(element, tid) == [kind |-> "Insert", element |-> element, tid |-> tid]
LwwSetOp_Remove(element, tid) == [kind |-> "Remove", element |-> element, tid |-> tid]
LwwSetOps ==
    {LwwSetOp_Insert(e, t) : e \in Elements, t \in TransactionIds}
        \cup {LwwSetOp_Remove(e, t) : e \in Elements, t \in TransactionIds}

\* fn insert: Occupied with transaction_id >= the stored id, or Vacant.
LwwSet_insert(self, element, transaction_id) ==
    LET updated == \/ element \notin DOMAIN self.elements
                   \/ transaction_id >= self.elements[element][2]
    IN IF updated
       THEN [state |-> [self EXCEPT !.elements =
                           MapPut(self.elements, element, <<TRUE, transaction_id>>)],
             result |-> Some(LwwSetOp_Insert(element, transaction_id))]
       ELSE [state |-> self, result |-> None]

\* A faulty remove, to test the sensitivity of the properties below: the
\* comparison is >=, as in insert, so an exact tie goes to whichever comes last.
LwwSet_remove_on_tie(self, element, transaction_id) ==
    LET updated == \/ element \notin DOMAIN self.elements
                   \/ transaction_id >= self.elements[element][2]
    IN IF updated
       THEN [state |-> [self EXCEPT !.elements =
                           MapPut(self.elements, element, <<FALSE, transaction_id>>)],
             result |-> Some([kind |-> "Remove", element |-> element, tid |-> transaction_id])]
       ELSE [state |-> self, result |-> None]

\* fn remove: Occupied with transaction_id > the stored id, or Vacant.
LwwSet_remove(self, element, transaction_id) ==
    LET updated == \/ element \notin DOMAIN self.elements
                   \/ transaction_id > self.elements[element][2]
    IN IF updated
       THEN [state |-> [self EXCEPT !.elements =
                           MapPut(self.elements, element, <<FALSE, transaction_id>>)],
             result |-> Some(LwwSetOp_Remove(element, transaction_id))]
       ELSE [state |-> self, result |-> None]

LwwSet_contains(self, value) ==
    IF value \in DOMAIN self.elements THEN self.elements[value][1] ELSE FALSE

LwwSet_len(self) == Cardinality({e \in DOMAIN self.elements : self.elements[e][1]})

RECURSIVE LwwSet_merge_from(_, _, _)
\* The loop of fn merge over the entries of other not yet visited.
LwwSet_merge_from(self, other, todo) ==
    IF todo = {} THEN self
    ELSE LET element == CHOOSE e \in todo : TRUE
             is_present == other.elements[element][1]
             tid == other.elements[element][2]
             next == IF is_present
                     THEN LwwSet_insert(self, element, tid).state
                     ELSE LwwSet_remove(self, element, tid).state
         IN LwwSet_merge_from(next, other, todo \ {element})

\* fn merge: insert or remove is replayed for every entry of other.
LwwSet_merge(self, other) == LwwSet_merge_from(self, other, DOMAIN other.elements)

\* A faulty apply, to test the sensitivity of the properties below: the
\* operation overwrites the entry whatever the stored transaction id.
LwwSet_apply_overwriting(self, operation) ==
    [self EXCEPT !.elements =
        MapPut(self.elements, operation.element,
               <<operation.kind = "Insert", operation.tid>>)]

LwwSet_apply(self, operation) ==
    IF operation.kind = "Insert"
    THEN LwwSet_insert(self, operation.element, operation.tid).state
    ELSE LwwSet_remove(self, operation.element, operation.tid).state

LwwSet_eq(self, other) == self.elements = other.elements

\* partial_cmp's self_is_greater: some entry of self has no entry in other, or
\* a transaction id greater than other's.
LwwSet_self_is_greater(self, other) ==
    \E e \in DOMAIN self.elements :
        \/ e \notin DOMAIN other.elements
        \/ self.elements[e][2] > other.elements[e][2]

\* impl PartialOrd: partial_cmp, as "Equal", "Less", "Greater" or "None".
LwwSet_partial_cmp(self, other) ==
    IF self.elements = other.elements THEN "Equal"
    ELSE LET self_is_greater == LwwSet_self_is_greater(self, other)
             other_is_greater == LwwSet_self_is_greater(other, self)
         IN IF self_is_greater /\ other_is_greater THEN "None"
            ELSE IF self_is_greater THEN "Greater"
            ELSE "Less"

\* The comparison operators PartialOrd derives from partial_cmp.
LwwSet_ge(self, other) == LwwSet_partial_cmp(self, other) \in {"Greater", "Equal"}
LwwSet_le(self, other) == LwwSet_partial_cmp(self, other) \in {"Less", "Equal"}

LWInit ==
    /\ lw = [r \in Replicas |-> LwwSet_new]
    /\ lwLast = [op |-> "new"]
    /\ gc = Idle /\ gcInbox = Idle /\ gcAmounts = Idle
    /\ pc = Idle /\ pcInbox = Idle /\ pcAmounts = Idle
    /\ tp = Idle /\ tpLast = Idle
    /\ ps = Idle /\ psHist = Idle /\ psSeen = Idle
    /\ paBase = Idle /\ paCur = Idle /\ paApplied = Idle
    /\ reg = Idle /\ regInit = Idle /\ regPool = Idle /\ regApplied = Idle
    /\ lr = Idle /\ lrLast = Idle
    /\ gmIn = Idle /\ gmAcc = Idle /\ gmDone = Idle
    /\ gv = Idle /\ gvHist = Idle /\ gvSeen = Idle
    /\ idr = Idle /\ idrSteps = Idle
    /\ gs = Idle /\ gsLast = Idle
    /\ taBase = Idle /\ taCur = Idle /\ taApplied = Idle
    /\ laBase = Idle /\ laCur = Idle /\ laApplied = Idle
    /\ pv = Idle /\ pvHist = Idle /\ pvSeen = Idle
    /\ pmIn = Idle /\ pmAcc = Idle /\ pmDone = Idle
    /\ pxSrc = Idle /\ pxOps = Idle /\ pxRecv = Idle

LWInsert(r, e, tid) ==
    /\ lw' = [lw EXCEPT ![r] = LwwSet_insert(lw[r], e, tid).state]
    /\ lwLast' = [op |-> "insert", r |-> r, element |-> e, tid |-> tid]
    /\ UNCHANGED lwOthers

LWRemove(r, e, tid) ==
    /\ lw' = [lw EXCEPT ![r] = LwwSet_remove(lw[r], e, tid).state]
    /\ lwLast' = [op |-> "remove", r |-> r, element |-> e, tid |-> tid]
    /\ UNCHANGED lwOthers

\* Operation-based replication: any operation may arrive, any number of times.
LWApply(r, operation) ==
    /\ lw' = [lw EXCEPT ![r] = LwwSet_apply(lw[r], operation)]
    /\ lwLast' = [op |-> "apply", r |-> r, element |-> operation.element,
                  tid |-> operation.tid]
    /\ UNCHANGED lwOthers

\* State-based replication: r merges a copy of s.
LWMerge(r, s) ==
    /\ r # s
    /\ lw' = [lw EXCEPT ![r] = LwwSet_merge(lw[r], lw[s])]
    /\ lwLast' = [op |-> "merge", r |-> r, s |-> s]
    /\ UNCHANGED lwOthers

LWNext ==
    \/ \E r \in Replicas, e \in Elements, tid \in TransactionIds : LWInsert(r, e, tid)
    \/ \E r \in Replicas, e \in Elements, tid \in TransactionIds : LWRemove(r, e, tid)
    \/ \E r \in Replicas, operation \in LwwSetOps : LWApply(r, operation)
    \/ \E r \in Replicas, s \in Replicas : LWMerge(r, s)

SpecLwwSet == LWInit /\ [][LWNext]_vars

\* C6: an exact transaction-id tie resolves toward presence whatever the
\* order: for a set whose stored id for e is absent or <= t, applying
\* Insert(e, t) and Remove(e, t) in either order ends with contains(e) and the
\* stored id t; and merging a set holding <<TRUE, t>> for e with one holding
\* <<FALSE, t>>, in either direction, ends the same way.
C6_LwwSetTieTowardPresence ==
    /\ \A r \in Replicas, e \in Elements, t \in TransactionIds :
          (e \notin DOMAIN lw[r].elements \/ lw[r].elements[e][2] <= t) =>
              LET ins == LwwSetOp_Insert(e, t)
                  rem == LwwSetOp_Remove(e, t)
                  ir == LwwSet_apply(LwwSet_apply(lw[r], ins), rem)
                  ri == LwwSet_apply(LwwSet_apply(lw[r], rem), ins)
              IN /\ LwwSet_contains(ir, e) /\ ir.elements[e] = <<TRUE, t>>
                 /\ LwwSet_contains(ri, e) /\ ri.elements[e] = <<TRUE, t>>
    /\ \A r \in Replicas, s \in Replicas, e \in Elements, t \in TransactionIds :
          ( /\ e \in DOMAIN lw[r].elements /\ lw[r].elements[e] = <<TRUE, t>>
            /\ e \in DOMAIN lw[s].elements /\ lw[s].elements[e] = <<FALSE, t>> )
              => LET rs == LwwSet_merge(lw[r], lw[s])
                     sr == LwwSet_merge(lw[s], lw[r])
                 IN /\ LwwSet_contains(rs, e) /\ rs.elements[e] = <<TRUE, t>>
                    /\ LwwSet_contains(sr, e) /\ sr.elements[e] = <<TRUE, t>>

\* Witness of C6: a Remove(e, t) has just been applied to a replica that held
\* <<TRUE, t>> for e and still does, and another replica holds <<FALSE, t>>.
C6_Witness ==
    /\ lwLast.op \in {"remove", "apply"}
    /\ \E s \in Replicas :
          /\ lwLast.element \in DOMAIN lw[lwLast.r].elements
          /\ lw[lwLast.r].elements[lwLast.element] = <<TRUE, lwLast.tid>>
          /\ lwLast.element \in DOMAIN lw[s].elements
          /\ lw[s].elements[lwLast.element] = <<FALSE, lwLast.tid>>

\* C7: merge is an upper bound under the derived order: after a.merge(b),
\* a >= b and b <= a.
C7_LwwSetMergeUpperBound ==
    lwLast.op = "merge" =>
        /\ LwwSet_ge(lw[lwLast.r], lw[lwLast.s])
        /\ LwwSet_le(lw[lwLast.s], lw[lwLast.r])

----------------------------------------------------------------------------
(* Pn: src/src/pn.rs *)

Pn_new == [p |-> 0, n |-> 0]

Pn_count(self) == self.p - self.n

\* A faulty increment, to test the sensitivity of the properties below: a
\* negative amount is dropped when the count is not positive.
Pn_increment_saturating(self, amount) ==
    IF amount >= 0
    THEN [self EXCEPT !.p = self.p + amount]
    ELSE IF self.p > self.n
         THEN [self EXCEPT !.n = self.n + Abs(amount)]
         ELSE self

Pn_increment(self, amount) ==
    IF amount >= 0
    THEN [self EXCEPT !.p = self.p + amount]
    ELSE [self EXCEPT !.n = self.n + Abs(amount)]

\* A faulty Pn::merge, to test the sensitivity of the properties below: the
\* counts of other are added, as if the Pn were a delta.
Pn_merge_adding(self, other) == [p |-> self.p + other.p, n |-> self.n + other.n]

Pn_merge(self, other) == [p |-> Max(self.p, other.p), n |-> Max(self.n, other.n)]

----------------------------------------------------------------------------
(* PnSet: src/src/set/pnset.rs.  elements maps an element to a map from    *)
(* replica id to Pn.                                                       *)

PnSet_new(replica_id) == [replica_id |-> replica_id, elements |-> EmptyMap]

PnSetOp(element, replica_id, pn) ==
    [element |-> element, replica_id |-> replica_id, pn |-> pn]

\* fn count: the sum of Pn::count over the replicas of one element.
PnSet_count(replica_counts) ==
    SumOver([r \in DOMAIN replica_counts |-> Pn_count(replica_counts[r])],
            DOMAIN replica_counts)

\* entry(element).or_insert_with(|| HashMap::new())
PnSet_entry(self, element) ==
    IF element \in DOMAIN self.elements THEN self.elements[element] ELSE EmptyMap

\* entry(replica_id).or_insert(Pn::new())
PnSet_pn_entry(replica_counts, replica_id) ==
    IF replica_id \in DOMAIN replica_counts THEN replica_counts[replica_id] ELSE Pn_new

\* A faulty increment_element, to test the sensitivity of the properties
\* below: the operation carries the Pn of this call alone, not a copy of the
\* replica's Pn for the element.
PnSet_increment_element_delta(self, element, amount) ==
    LET replica_counts == PnSet_entry(self, element)
        pn == Pn_increment(PnSet_pn_entry(replica_counts, self.replica_id), amount)
    IN [state |-> [self EXCEPT !.elements =
                      MapPut(self.elements, element,
                             MapPut(replica_counts, self.replica_id, pn))],
        operation |-> PnSetOp(element, self.replica_id, Pn_increment(Pn_new, amount))]

\* fn increment_element: increments the local replica's Pn of the element and
\* returns an operation carrying a copy of it.
PnSet_increment_element(self, element, amount) ==
    LET replica_counts == PnSet_entry(self, element)
        pn == Pn_increment(PnSet_pn_entry(replica_counts, self.replica_id), amount)
    IN [state |-> [self EXCEPT !.elements =
                      MapPut(self.elements, element,
                             MapPut(replica_counts, self.replica_id, pn))],
        operation |-> PnSetOp(element, self.replica_id, pn)]

PnSet_insert(self, element) == PnSet_increment_element(self, element, 1)

PnSet_remove(self, element) == PnSet_increment_element(self, element, -1)

PnSet_contains(self, element) ==
    IF element \in DOMAIN self.elements
    THEN PnSet_count(self.elements[element]) > 0
    ELSE FALSE

\* A faulty merge, to test the sensitivity of the properties below: the Pn of
\* other replaces the Pn of self instead of being merged into it.
PnSet_merge_overwriting(self, other) ==
    [self EXCEPT !.elements =
        [e \in DOMAIN self.elements \cup DOMAIN other.elements |->
            IF e \in DOMAIN other.elements
            THEN LET self_count == PnSet_entry(self, e)
                     other_count == other.elements[e]
                 IN [r \in DOMAIN self_count \cup DOMAIN other_count |->
                        IF r \in DOMAIN other_count
                        THEN other_count[r]
                        ELSE self_count[r]]
            ELSE self.elements[e]]]

\* fn merge: per element of other, per replica, Pn::merge into the entry of
\* self (created empty / zero when missing).
PnSet_merge(self, other) ==
    [self EXCEPT !.elements =
        [e \in DOMAIN self.elements \cup DOMAIN other.elements |->
            IF e \in DOMAIN other.elements
            THEN LET self_count == PnSet_entry(self, e)
                     other_count == other.elements[e]
                 IN [r \in DOMAIN self_count \cup DOMAIN other_count |->
                        IF r \in DOMAIN other_count
                        THEN Pn_merge(PnSet_pn_entry(self_count, r), other_count[r])
                        ELSE self_count[r]]
            ELSE self.elements[e]]]

\* A faulty apply, to test the sensitivity of the properties below: the
\* operation's pn overwrites the entry instead of being merged into it.
PnSet_apply_overwriting(self, operation) ==
    [self EXCEPT !.elements =
        MapPut(self.elements, operation.element,
               MapPut(PnSet_entry(self, operation.element),
                      operation.replica_id, operation.pn))]

\* fn apply: Pn::merge of the operation's pn into the entry of its element and
\* replica.
PnSet_apply(self, operation) ==
    LET replica_counts == PnSet_entry(self, operation.element)
        pn == Pn_merge(PnSet_pn_entry(replica_counts, operation.replica_id),
                       operation.pn)
    IN [self EXCEPT !.elements =
           MapPut(self.elements, operation.element,
                  MapPut(replica_counts, operation.replica_id, pn))]

PnSet_eq(self, other) == self.elements = other.elements

\* The replicas of a PnSet; replica r is created with replica id r.
PnSetReplicas == {1, 2, 3}

PSInit ==
    /\ ps = [r \in PnSetReplicas |-> PnSet_new(r)]
    /\ psHist = [r \in PnSetReplicas |-> << >>]
    /\ psSeen = [x \in PnSetReplicas |-> [r \in PnSetReplicas |-> 0]]
    /\ gc = Idle /\ gcInbox = Idle /\ gcAmounts = Idle
    /\ pc = Idle /\ pcInbox = Idle /\ pcAmounts = Idle
    /\ tp = Idle /\ tpLast = Idle
    /\ lw = Idle /\ lwLast = Idle
    /\ paBase = Idle /\ paCur = Idle /\ paApplied = Idle
    /\ reg = Idle /\ regInit = Idle /\ regPool = Idle /\ regApplied = Idle
    /\ lr = Idle /\ lrLast = Idle
    /\ gmIn = Idle /\ gmAcc = Idle /\ gmDone = Idle
    /\ gv = Idle /\ gvHist = Idle /\ gvSeen = Idle
    /\ idr = Idle /\ idrSteps = Idle
    /\ gs = Idle /\ gsLast = Idle
    /\ taBase = Idle /\ taCur = Idle /\ taApplied = Idle
    /\ laBase = Idle /\ laCur = Idle /\ laApplied = Idle
    /\ pv = Idle /\ pvHist = Idle /\ pvSeen = Idle
    /\ pmIn = Idle /\ pmAcc = Idle /\ pmDone = Idle
    /\ pxSrc = Idle /\ pxOps = Idle /\ pxRecv = Idle

PSCalls == SumOver([r \in PnSetReplicas |-> Len(psHist[r])], PnSetReplicas)

PSInsert(r, e) ==
    /\ PSCalls < MaxSetCalls
    /\ ps' = [ps EXCEPT ![r] = PnSet_insert(ps[r], e).state]
    /\ psHist' = [psHist EXCEPT ![r] = Append(psHist[r], <<"insert", e>>)]
    /\ psSeen' = [psSeen EXCEPT ![r][r] = Len(psHist[r]) + 1]
    /\ UNCHANGED psOthers

PSRemove(r, e) ==
    /\ PSCalls < MaxSetCalls
    /\ ps' = [ps EXCEPT ![r] = PnSet_remove(ps[r], e).state]
    /\ psHist' = [psHist EXCEPT ![r] = Append(psHist[r], <<"remove", e>>)]
    /\ psSeen' = [psSeen EXCEPT ![r][r] = Len(psHist[r]) + 1]
    /\ UNCHANGED psOthers

\* State-based replication: x merges a copy of y, and with it receives every
\* call y had received.
PSMerge(x, y) ==
    /\ x # y
    /\ ps' = [ps EXCEPT ![x] = PnSet_merge(ps[x], ps[y])]
    /\ psSeen' = [psSeen EXCEPT ![x] =
                     [r \in PnSetReplicas |-> Max(psSeen[x][r], psSeen[y][r])]]
    /\ UNCHANGED <<psHist, psOthers>>

PSNext ==
    \/ \E r \in PnSetReplicas, e \in Elements : PSInsert(r, e)
    \/ \E r \in PnSetReplicas, e \in Elements : PSRemove(r, e)
    \/ \E x \in PnSetReplicas, y \in PnSetReplicas : PSMerge(x, y)

SpecPnSet == PSInit /\ [][PSNext]_vars

\* The number of calls of the given kind on element e among the first k calls
\* of replica r.
PSCallCount(r, k, kind, e) ==
    Cardinality({i \in 1..k : psHist[r][i] = <<kind, e>>})

\* Inserts minus removes of e, over every replica r, as far as x has received
\* r's calls.
PSReceived(x, e) ==
    SumOver([r \in PnSetReplicas |->
                PSCallCount(r, psSeen[x][r], "insert", e)
                    - PSCallCount(r, psSeen[x][r], "remove", e)],
            PnSetReplicas)

\* C8: PnSet tracks each replica's contribution separately: after any local
\* inserts / removes and any merges, contains(e) on replica x is true iff the
\* inserts minus the removes of e, summed over the replicas as far as x has
\* received their state, is > 0; so when local inserted e, remote inserted
\* and removed e, and local has received the state of no other replica, local
\* still contains e after local.merge(remote).
C8_PnSetPerReplicaCounts ==
    /\ \A x \in PnSetReplicas, e \in Elements :
          PnSet_contains(ps[x], e) <=> PSReceived(x, e) > 0
    /\ \A x \in PnSetReplicas, y \in PnSetReplicas, e \in Elements :
          ( /\ x # y
            /\ psHist[x] = << <<"insert", e>> >>
            /\ psHist[y] = << <<"insert", e>>, <<"remove", e>> >>
            /\ psSeen[x][y] = 2
            /\ \A z \in PnSetReplicas \ {x, y} : psSeen[x][z] = 0 )
              => PnSet_contains(ps[x], e)

\* Witness of C8: local inserted e, remote inserted and removed e, local has
\* merged remote and contains e.
C8_Witness ==
    \E x \in PnSetReplicas, y \in PnSetReplicas, e \in Elements :
        /\ x # y
        /\ psHist[x] = << <<"insert", e>> >>
        /\ psHist[y] = << <<"insert", e>>, <<"remove", e>> >>
        /\ psSeen[x][y] = 2
        /\ PnSet_contains(ps[x], e)
        /\ ~PnSet_contains(ps[y], e)

----------------------------------------------------------------------------
(* PnSet::apply under at-least-once, unordered delivery: one replica       *)
(* applies operations drawn from PnSetOps in any order, any number of      *)
(* times (test.rs apply_is_commutative folds every permutation).           *)

PnValues == {[p |-> p, n |-> n] : p \in 0..MaxPn, n \in 0..MaxPn}

PnSetOps == {PnSetOp(e, r, pn) : e \in Elements, r \in Replicas, pn \in PnValues}

\* The states a run starts from: a new set, or a set that holds one entry.
PnSetBases ==
    {PnSet_new(3)} \cup {PnSet_apply(PnSet_new(3), operation) : operation \in PnSetOps}

RECURSIVE PnSet_apply_all(_, _)
\* The operations of ops applied once each, in one fixed order.
PnSet_apply_all(self, ops) ==
    IF ops = {} THEN self
    ELSE LET operation == CHOOSE o \in ops : TRUE
         IN PnSet_apply_all(PnSet_apply(self, operation), ops \ {operation})

PAInit ==
    /\ paBase \in PnSetBases
    /\ paCur = paBase
    /\ paApplied = {}
    /\ gc = Idle /\ gcInbox = Idle /\ gcAmounts = Idle
    /\ pc = Idle /\ pcInbox = Idle /\ pcAmounts = Idle
    /\ tp = Idle /\ tpLast = Idle
    /\ lw = Idle /\ lwLast = Idle
    /\ ps = Idle /\ psHist = Idle /\ psSeen = Idle
    /\ reg = Idle /\ regInit = Idle /\ regPool = Idle /\ regApplied = Idle
    /\ lr = Idle /\ lrLast = Idle
    /\ gmIn = Idle /\ gmAcc = Idle /\ gmDone = Idle
    /\ gv = Idle /\ gvHist = Idle /\ gvSeen = Idle
    /\ idr = Idle /\ idrSteps = Idle
    /\ gs = Idle /\ gsLast = Idle
    /\ taBase = Idle /\ taCur = Idle /\ taApplied = Idle
    /\ laBase = Idle /\ laCur = Idle /\ laApplied = Idle
    /\ pv = Idle /\ pvHist = Idle /\ pvSeen = Idle
    /\ pmIn = Idle /\ pmAcc = Idle /\ pmDone = Idle
    /\ pxSrc = Idle /\ pxOps = Idle /\ pxRecv = Idle

\* An operation is delivered: a new one, or one delivered before.
PAApply(operation) ==
    /\ Cardinality(paApplied \cup {operation}) <= MaxApplied
    /\ paCur' = PnSet_apply(paCur, operation)
    /\ paApplied' = paApplied \cup {operation}
    /\ UNCHANGED <<paBase, paOthers>>

PANext == \E operation \in PnSetOps : PAApply(operation)

SpecPnSetApply == PAInit /\ [][PANext]_vars

\* C9: PnSet tolerates at-least-once unordered delivery: starting from the
\* same state, applying a collection of operations in any order and with any
\* operation repeated gives the state that applying each operation once, in
\* one fixed order, gives; so all such runs end in equal states.
C9_PnSetApplyAnyOrder ==
    PnSet_eq(paCur, PnSet_apply_all(paBase, paApplied))

\* Witness of C9: two different operations on the same element and replica
\* have been applied to a set that already held an entry for them, and the
\* state is not that of either alone.
C9_Witness ==
    \E o1 \in paApplied, o2 \in paApplied :
        /\ paApplied = {o1, o2}
        /\ o1.element = o2.element /\ o1.replica_id = o2.replica_id
        /\ o1.pn.p > o2.pn.p /\ o1.pn.n < o2.pn.n
        /\ o1.element \in DOMAIN paBase.elements
        /\ paCur # PnSet_apply(paBase, o1)
        /\ paCur # PnSet_apply(paBase, o2)

----------------------------------------------------------------------------
(* LwwRegister: src/src/register/lwwregister.rs.  The operation type of a  *)
(* register is the register itself: set returns a copy of the new state.   *)

LwwRegister_new(value, transaction_id) ==
    [value |-> value, transaction_id |-> transaction_id]

LwwRegister_get(self) == self.value

LwwRegister_transaction_id(self) == self.transaction_id

\* A faulty merge, to test the sensitivity of the properties below: the state
\* delivered last always wins.
LwwRegister_merge_overwriting(self, other) == other

\* fn merge: other's value and transaction id are taken when
\* self.transaction_id <= other.transaction_id.
LwwRegister_merge(self, other) ==
    IF self.transaction_id <= other.transaction_id
    THEN [value |-> other.value, transaction_id |-> other.transaction_id]
    ELSE self

LwwRegister_apply(self, op) == LwwRegister_merge(self, op)

\* impl PartialEq: only the transaction ids are compared.
LwwRegister_eq(self, other) == self.transaction_id = other.transaction_id

\* The register starts with any value and transaction id; the operations to be
\* delivered carry pairwise distinct transaction ids, distinct from the
\* register's own (the uniqueness the library requires of its callers).
RGInit ==
    /\ regInit \in {LwwRegister_new(v, t) : v \in Values, t \in TransactionIds}
    /\ reg = regInit
    /\ \E tids \in SUBSET (TransactionIds \ {regInit.transaction_id}) :
          \E f \in [tids -> Values] :
              regPool = {LwwRegister_new(f[t], t) : t \in tids}
    /\ regApplied = {}
    /\ gc = Idle /\ gcInbox = Idle /\ gcAmounts = Idle
    /\ pc = Idle /\ pcInbox = Idle /\ pcAmounts = Idle
    /\ tp = Idle /\ tpLast = Idle
    /\ lw = Idle /\ lwLast = Idle
    /\ ps = Idle /\ psHist = Idle /\ psSeen = Idle
    /\ paBase = Idle /\ paCur = Idle /\ paApplied = Idle
    /\ lr = Idle /\ lrLast = Idle
    /\ gmIn = Idle /\ gmAcc = Idle /\ gmDone = Idle
    /\ gv = Idle /\ gvHist = Idle /\ gvSeen = Idle
    /\ idr = Idle /\ idrSteps = Idle
    /\ gs = Idle /\ gsLast = Idle
    /\ taBase = Idle /\ taCur = Idle /\ taApplied = Idle
    /\ laBase = Idle /\ laCur = Idle /\ laApplied = Idle
    /\ pv = Idle /\ pvHist = Idle /\ pvSeen = Idle
    /\ pmIn = Idle /\ pmAcc = Idle /\ pmDone = Idle
    /\ pxSrc = Idle /\ pxOps = Idle /\ pxRecv = Idle

\* An operation of the pool is delivered: a new one, or one delivered before.
RGApply(op) ==
    /\ reg' = LwwRegister_apply(reg, op)
    /\ regApplied' = regApplied \cup {op}
    /\ UNCHANGED <<regInit, regPool, regOthers>>

RGNext == \E op \in regPool : RGApply(op)

SpecLwwRegister == RGInit /\ [][RGNext]_vars

\* C10: the register keeps the value written with the largest transaction id
\* whatever the delivery order: with pairwise distinct transaction ids, after
\* any operations applied in any order and with duplicates, get() is the value
\* carried with the greatest transaction id among the initial state and the
\* operations applied.
C10_LwwRegisterKeepsLargestTid ==
    LET written == {regInit} \cup regApplied
        newest == CHOOSE x \in written :
                      \A y \in written : y.transaction_id <= x.transaction_id
    IN /\ LwwRegister_get(reg) = newest.value
       /\ LwwRegister_transaction_id(reg) = newest.transaction_id

\* Witness of C10: every operation of a pool has been applied, among them one
\* older and one newer than the initial state, and the register holds the
\* newer one's value, which differs from the initial one.
C10_Witness ==
    /\ regApplied = regPool
    /\ \E old \in regPool, new \in regPool :
          /\ old.transaction_id < regInit.transaction_id
          /\ new.transaction_id > regInit.transaction_id
          /\ new.value # regInit.value
          /\ LwwRegister_get(reg) = new.value
          /\ reg.transaction_id = new.transaction_id

----------------------------------------------------------------------------
(* LwwRegister::set on replicas of one register.  Every replica is created *)
(* with LwwRegister::new(value, transaction_id); replicas are written by   *)
(* set and exchange their states by merge.                                 *)

\* A faulty set, to test the sensitivity of the properties below: the
\* comparison is strict, so a write at the current transaction id is refused.
LwwRegister_set_strict(self, value, transaction_id) ==
    IF self.transaction_id < transaction_id
    THEN LET updated == [value |-> value, transaction_id |-> transaction_id]
         IN [state |-> updated, result |-> Some(updated)]
    ELSE [state |-> self, result |-> None]

\* fn set: when self.transaction_id <= tid the value and the transaction id
\* are replaced and Some(self.clone()) is returned; None otherwise.
LwwRegister_set(self, value, transaction_id) ==
    IF self.transaction_id <= transaction_id
    THEN LET updated == [value |-> value, transaction_id |-> transaction_id]
         IN [state |-> updated, result |-> Some(updated)]
    ELSE [state |-> self, result |-> None]

RSInit ==
    /\ lr \in [Replicas -> {LwwRegister_new(v, t) : v \in Values, t \in TransactionIds}]
    /\ lrLast = [op |-> "new"]
    /\ gc = Idle /\ gcInbox = Idle /\ gcAmounts = Idle
    /\ pc = Idle /\ pcInbox = Idle /\ pcAmounts = Idle
    /\ tp = Idle /\ tpLast = Idle
    /\ lw = Idle /\ lwLast = Idle
    /\ ps = Idle /\ psHist = Idle /\ psSeen = Idle
    /\ paBase = Idle /\ paCur = Idle /\ paApplied = Idle
    /\ reg = Idle /\ regInit = Idle /\ regPool = Idle /\ regApplied = Idle
    /\ gmIn = Idle /\ gmAcc = Idle /\ gmDone = Idle
    /\ gv = Idle /\ gvHist = Idle /\ gvSeen = Idle
    /\ idr = Idle /\ idrSteps = Idle
    /\ gs = Idle /\ gsLast = Idle
    /\ taBase = Idle /\ taCur = Idle /\ taApplied = Idle
    /\ laBase = Idle /\ laCur = Idle /\ laApplied = Idle
    /\ pv = Idle /\ pvHist = Idle /\ pvSeen = Idle
    /\ pmIn = Idle /\ pmAcc = Idle /\ pmDone = Idle
    /\ pxSrc = Idle /\ pxOps = Idle /\ pxRecv = Idle

RSSet(r, value, transaction_id) ==
    /\ LET res == LwwRegister_set(lr[r], value, transaction_id)
       IN /\ lr' = [lr EXCEPT ![r] = res.state]
          /\ lrLast' = [op |-> "set", r |-> r, value |-> value,
                        transaction_id |-> transaction_id,
                        before |-> lr[r], result |-> res.result]
    /\ UNCHANGED lrOthers

\* State-based replication: r merges a copy of s.
RSMerge(r, s) ==
    /\ r # s
    /\ lr' = [lr EXCEPT ![r] = LwwRegister_merge(lr[r], lr[s])]
    /\ lrLast' = [op |-> "merge", r |-> r, s |-> s, before |-> lr[r]]
    /\ UNCHANGED lrOthers

\* Operation-based replication: any operation (a register snapshot returned
\* by some set) may arrive, any number of times.
RSApply(r, op) ==
    /\ lr' = [lr EXCEPT ![r] = LwwRegister_apply(lr[r], op)]
    /\ lrLast' = [op |-> "apply", r |-> r, operation |-> op, before |-> lr[r]]
    /\ UNCHANGED lrOthers

RSNext ==
    \/ \E r \in Replicas, value \in Values, transaction_id \in TransactionIds :
          RSSet(r, value, transaction_id)
    \/ \E r \in Replicas, s \in Replicas : RSMerge(r, s)
    \/ \E r \in Replicas, value \in Values, transaction_id \in TransactionIds :
          RSApply(r, LwwRegister_new(value, transaction_id))

SpecLwwRegisterSet == RSInit /\ [][RSNext]_vars

\* C11: LwwRegister.set(value, tid) succeeds iff tid >= the current
\* transaction id: on success the register holds (value, tid) and
\* Some(snapshot of the new state) is returned; when tid < the current
\* transaction id, None is returned and value and transaction id are unchanged.
C11_LwwRegisterSet ==
    lrLast.op = "set" =>
        LET before == lrLast.before
            after == lr[lrLast.r]
        IN IF lrLast.transaction_id >= LwwRegister_transaction_id(before)
           THEN /\ LwwRegister_get(after) = lrLast.value
                /\ LwwRegister_transaction_id(after) = lrLast.transaction_id
                /\ lrLast.result = Some(after)
           ELSE /\ lrLast.result = None
                /\ LwwRegister_get(after) = LwwRegister_get(before)
                /\ LwwRegister_transaction_id(after) = LwwRegister_transaction_id(before)

\* Witness of C11: a set at exactly the current transaction id, with another
\* value, has succeeded.
C11_Witness ==
    /\ lrLast.op = "set"
    /\ lrLast.transaction_id = lrLast.before.transaction_id
    /\ lrLast.value # lrLast.before.value
    /\ lrLast.result = Some(lr[lrLast.r])
    /\ lr[lrLast.r].value = lrLast.value

----------------------------------------------------------------------------
(* GCounter: the partial order, and merge as a function of arbitrary       *)
(* counters (gcounter.rs, impl PartialOrd and the merge tests).  A run     *)
(* takes three counters and folds them, in any order, into a fresh         *)
(* GCounter::new(0), as check_merge_is_commutative does.                   *)

\* Largest count of one replica in a counter given to a merge run.
MaxCount == 2

\* The counts maps over the replicas, every entry present or absent.
GCounterCounts ==
    UNION {[keys -> 0..MaxCount] : keys \in SUBSET Replicas}

GCounterStates(replica_id) ==
    {[replica_id |-> replica_id, counts |-> counts] : counts \in GCounterCounts}

\* fn a_gt_b: some entry of a is missing in b or greater than b's.
GCounter_a_gt_b(a, b) ==
    \E replica_id \in DOMAIN a.counts :
        \/ replica_id \notin DOMAIN b.counts
        \/ a.counts[replica_id] > b.counts[replica_id]

\* A faulty partial_cmp, to test the sensitivity of the properties below: the
\* counts are compared with a missing entry read as 0 and the lengths are not
\* looked at.
GCounter_partial_cmp_by_value(self, other) ==
    LET at(c, r) == IF r \in DOMAIN c.counts THEN c.counts[r] ELSE 0
        keys == DOMAIN self.counts \cup DOMAIN other.counts
        self_gt_other == \E r \in keys : at(self, r) > at(other, r)
        other_gt_self == \E r \in keys : at(other, r) > at(self, r)
    IN IF self_gt_other /\ other_gt_self THEN "None"
       ELSE IF self_gt_other THEN "Greater"
       ELSE IF other_gt_self THEN "Less"
       ELSE "Equal"

\* impl PartialOrd: partial_cmp, as "Equal", "Less", "Greater" or "None".  The
\* side with more entries is taken to be greater without looking at them.
GCounter_partial_cmp(self, other) ==
    LET self_len == Cardinality(DOMAIN self.counts)
        other_len == Cardinality(DOMAIN other.counts)
        self_gt_other == IF self_len < other_len THEN GCounter_a_gt_b(self, other)
                         ELSE IF self_len > other_len THEN TRUE
                         ELSE GCounter_a_gt_b(self, other)
        other_gt_self == IF self_len < other_len THEN TRUE
                         ELSE GCounter_a_gt_b(other, self)
    IN IF self_gt_other /\ other_gt_self THEN "None"
       ELSE IF self_gt_other THEN "Greater"
       ELSE IF other_gt_self THEN "Less"
       ELSE "Equal"

\* a <= b and a >= b, as PartialOrd derives them from partial_cmp.
GCounter_le(a, b) == GCounter_partial_cmp(a, b) \in {"Less", "Equal"}

GCounter_ge(a, b) == GCounter_partial_cmp(a, b) \in {"Greater", "Equal"}

RECURSIVE GCounter_merge_all(_, _)
\* The fold of merge over a sequence of counters, from left to right.
GCounter_merge_all(counter, others) ==
    IF others = << >> THEN counter
    ELSE GCounter_merge_all(GCounter_merge(counter, Head(others)), Tail(others))

GMInit ==
    /\ gmIn \in GCounterStates(1) \X GCounterStates(2) \X GCounterStates(3)
    /\ gmAcc = GCounter_new(0)
    /\ gmDone = << >>
    /\ gc = Idle /\ gcInbox = Idle /\ gcAmounts = Idle
    /\ pc = Idle /\ pcInbox = Idle /\ pcAmounts = Idle
    /\ tp = Idle /\ tpLast = Idle
    /\ lw = Idle /\ lwLast = Idle
    /\ ps = Idle /\ psHist = Idle /\ psSeen = Idle
    /\ paBase = Idle /\ paCur = Idle /\ paApplied = Idle
    /\ reg = Idle /\ regInit = Idle /\ regPool = Idle /\ regApplied = Idle
    /\ lr = Idle /\ lrLast = Idle
    /\ gv = Idle /\ gvHist = Idle /\ gvSeen = Idle
    /\ idr = Idle /\ idrSteps = Idle
    /\ gs = Idle /\ gsLast = Idle
    /\ taBase = Idle /\ taCur = Idle /\ taApplied = Idle
    /\ laBase = Idle /\ laCur = Idle /\ laApplied = Idle
    /\ pv = Idle /\ pvHist = Idle /\ pvSeen = Idle
    /\ pmIn = Idle /\ pmAcc = Idle /\ pmDone = Idle
    /\ pxSrc = Idle /\ pxOps = Idle /\ pxRecv = Idle

\* The next counter of a permutation is merged into the accumulator.
GMMerge(i) ==
    /\ \A k \in 1..Len(gmDone) : gmDone[k] # i
    /\ gmAcc' = GCounter_merge(gmAcc, gmIn[i])
    /\ gmDone' = Append(gmDone, i)
    /\ UNCHANGED <<gmIn, gmOthers>>

GMNext == \E i \in 1..3 : GMMerge(i)

SpecGCounterMerge == GMInit /\ [][GMNext]_vars

\* The counters merged so far, in the order of their indices.
GMReference ==
    LET merged == {gmDone[k] : k \in 1..Len(gmDone)}
        pick(i) == IF i \in merged THEN <<gmIn[i]>> ELSE << >>
    IN GCounter_merge_all(GCounter_new(0), pick(1) \o pick(2) \o pick(3))

\* C12: GCounter.merge is a semilattice join: for all counters a, b, c,
\* merge(a, a) == a, merge(a, b) == merge(b, a) and
\* merge(merge(a, b), c) == merge(a, merge(b, c)); and folding the counters
\* into a fresh counter by merge gives an equal result in every order.
C12_GCounterMergeSemilattice ==
    LET a == gmIn[1]
        b == gmIn[2]
        c == gmIn[3]
    IN /\ GCounter_eq(GCounter_merge(a, a), a)
       /\ GCounter_eq(GCounter_merge(a, b), GCounter_merge(b, a))
       /\ GCounter_eq(GCounter_merge(GCounter_merge(a, b), c),
                      GCounter_merge(a, GCounter_merge(b, c)))
       /\ GCounter_eq(gmAcc, GMReference)

\* Witness of C12: the three counters have been merged in an order other than
\* that of their indices, they overlap on a replica with three different
\* counts, and the accumulator holds the largest.
C12_Witness ==
    /\ gmDone = <<3, 1, 2>>
    /\ \A i \in 1..3 : 1 \in DOMAIN gmIn[i].counts
    /\ gmIn[1].counts[1] = 2 /\ gmIn[2].counts[1] = 1 /\ gmIn[3].counts[1] = 0
    /\ gmAcc.counts[1] = 2

----------------------------------------------------------------------------
(* GCounter under state-based replication only: replicas increment locally *)
(* and exchange full states by merge, in any schedule.                     *)

\* The replicas of a state-based run; replica r is created with replica id r.
StateReplicas == {1, 2, 3}

GVInit ==
    /\ gv = [r \in StateReplicas |-> GCounter_new(r)]
    /\ gvHist = [r \in StateReplicas |-> << >>]
    /\ gvSeen = [x \in StateReplicas |-> [r \in StateReplicas |-> 0]]
    /\ gc = Idle /\ gcInbox = Idle /\ gcAmounts = Idle
    /\ pc = Idle /\ pcInbox = Idle /\ pcAmounts = Idle
    /\ tp = Idle /\ tpLast = Idle
    /\ lw = Idle /\ lwLast = Idle
    /\ ps = Idle /\ psHist = Idle /\ psSeen = Idle
    /\ paBase = Idle /\ paCur = Idle /\ paApplied = Idle
    /\ reg = Idle /\ regInit = Idle /\ regPool = Idle /\ regApplied = Idle
    /\ lr = Idle /\ lrLast = Idle
    /\ gmIn = Idle /\ gmAcc = Idle /\ gmDone = Idle
    /\ idr = Idle /\ idrSteps = Idle
    /\ gs = Idle /\ gsLast = Idle
    /\ taBase = Idle /\ taCur = Idle /\ taApplied = Idle
    /\ laBase = Idle /\ laCur = Idle /\ laApplied = Idle
    /\ pv = Idle /\ pvHist = Idle /\ pvSeen = Idle
    /\ pmIn = Idle /\ pmAcc = Idle /\ pmDone = Idle
    /\ pxSrc = Idle /\ pxOps = Idle /\ pxRecv = Idle

\* The number of increment calls so far, over all replicas.
GVCalls == SumOver([r \in StateReplicas |-> Len(gvHist[r])], StateReplicas)

\* A replica increments; the returned operation is dropped.
GVIncrement(r, amount) ==
    /\ GVCalls < MaxIncrements
    /\ gv' = [gv EXCEPT ![r] = GCounter_increment(gv[r], amount).state]
    /\ gvHist' = [gvHist EXCEPT ![r] = Append(gvHist[r], amount)]
    /\ gvSeen' = [gvSeen EXCEPT ![r][r] = Len(gvHist[r]) + 1]
    /\ UNCHANGED gvOthers

\* x merges a copy of y, and with it whatever y has received.
GVMerge(x, y) ==
    /\ x # y
    /\ gv' = [gv EXCEPT ![x] = GCounter_merge(gv[x], gv[y])]
    /\ gvSeen' = [gvSeen EXCEPT ![x] =
                     [r \in StateReplicas |-> Max(gvSeen[x][r], gvSeen[y][r])]]
    /\ UNCHANGED <<gvHist, gvOthers>>

GVNext ==
    \/ \E r \in StateReplicas, amount \in 0..MaxAmount : GVIncrement(r, amount)
    \/ \E x \in StateReplicas, y \in StateReplicas : GVMerge(x, y)

SpecGCounterState == GVInit /\ [][GVNext]_vars

\* Every replica has received, directly or through others, the final state of
\* every replica.
GVAllReceived ==
    \A x \in StateReplicas, r \in StateReplicas : gvSeen[x][r] = Len(gvHist[r])

\* The sum of all increments of all replicas.
GVTotal == SumOver([r \in StateReplicas |-> SumSeq(gvHist[r])], StateReplicas)

\* C13: GCounter state-based convergence: with local increments and merges
\* only, in any schedule, once every replica has directly or transitively
\* merged every other replica's final state, every replica's count() is the
\* sum of all increments of all replicas.
C13_GCounterStateConvergence ==
    GVAllReceived => \A x \in StateReplicas : GCounter_count(gv[x]) = GVTotal

\* Witness of C13: two replicas have incremented by different positive
\* amounts, every replica has received everything, and the third replica,
\* which never incremented, reports the sum.
C13_Witness ==
    /\ GVAllReceived
    /\ gvHist[1] = <<1>> /\ gvHist[2] = <<2>> /\ gvHist[3] = << >>
    /\ GCounter_count(gv[3]) = 3

----------------------------------------------------------------------------
(* GCounter: the order between replicas of SpecGCounter. *)

\* C14: concurrent GCounter increments are incomparable: for two replicas a
\* and b with distinct replica ids in any reachable state, after
\* a.increment(1) and b.increment(1) with nothing merged or applied
\* afterwards, a.partial_cmp(b) and b.partial_cmp(a) are both None.
C14_GCounterConcurrentIncrements ==
    \A r \in Replicas, s \in Replicas :
        r # s =>
            LET a == GCounter_increment(gc[r], 1).state
                b == GCounter_increment(gc[s], 1).state
            IN /\ GCounter_partial_cmp(a, b) = "None"
               /\ GCounter_partial_cmp(b, a) = "None"

----------------------------------------------------------------------------
(* GCounter: the order and merge on the counters of a merge run. *)

\* C15: GCounter order and merge agree: for all counters a and b, a <= b iff
\* merging a into b leaves b unchanged; after a.merge(b), a >= b and b <= a;
\* and after a.merge(b) followed by b.merge(a), a == b and partial_cmp is
\* Some(Equal) in both directions.  The same is checked of the accumulator of
\* the run against every counter merged into it.
C15_GCounterOrderAgreesWithMerge ==
    /\ \A i \in 1..3, j \in 1..3 :
          LET a == gmIn[i]
              b == gmIn[j]
              a_merged == GCounter_merge(a, b)
              b_merged == GCounter_merge(b, a_merged)
          IN /\ GCounter_le(a, b) <=> GCounter_eq(GCounter_merge(b, a), b)
             /\ GCounter_le(a, b) <=> GCounter_eq(GCounter_merge(a, b), b)
             /\ GCounter_ge(a_merged, b) /\ GCounter_le(b, a_merged)
             /\ GCounter_eq(a_merged, b_merged) /\ GCounter_eq(b_merged, a_merged)
             /\ GCounter_partial_cmp(a_merged, b_merged) = "Equal"
             /\ GCounter_partial_cmp(b_merged, a_merged) = "Equal"
    /\ \A k \in 1..Len(gmDone) :
          LET b == gmIn[gmDone[k]]
          IN /\ GCounter_ge(gmAcc, b) /\ GCounter_le(b, gmAcc)
             /\ GCounter_partial_cmp(GCounter_merge(b, gmAcc), gmAcc) = "Equal"

\* Witness of C15: two counters that are not ordered have been merged into
\* the accumulator, which is strictly greater than each of them.
C15_Witness ==
    /\ gmDone = <<1, 2>>
    /\ GCounter_partial_cmp(gmIn[1], gmIn[2]) = "None"
    /\ GCounter_partial_cmp(gmAcc, gmIn[1]) = "Greater"
    /\ GCounter_partial_cmp(gmIn[2], gmAcc) = "Less"

\* C16: the GCounter partial order treats a missing replica entry as 0: for
\* all counters a and b, a <= b iff for every replica r with an entry in a,
\* a.counts[r] <= b.counts[r], where b.counts[r] is 0 when b has no entry.
C16_GCounterMissingEntryIsZero ==
    \A i \in 1..3, j \in 1..3 :
        LET a == gmIn[i]
            b == gmIn[j]
        IN GCounter_le(a, b) <=>
              \A r \in DOMAIN a.counts :
                  a.counts[r] <= (IF r \in DOMAIN b.counts THEN b.counts[r] ELSE 0)

----------------------------------------------------------------------------
(* The replica id in equality and order: two replicas of one type          *)
(* (GCounter, PnCounter or PnSet), created with different replica ids,     *)
(* updated locally and merged into each other.                             *)

\* Largest number of calls in one run of two replicas.
MaxIdSteps == 4

\* pncounter.rs, partial_cmp: fn a_gt_b.
PnCounter_a_gt_b(a, b) ==
    \E replica_id \in DOMAIN a.counts :
        \/ replica_id \notin DOMAIN b.counts
        \/ a.counts[replica_id][1] > b.counts[replica_id][1]
        \/ a.counts[replica_id][2] > b.counts[replica_id][2]

\* pncounter.rs, impl PartialOrd: partial_cmp.
PnCounter_partial_cmp(self, other) ==
    LET self_len == Cardinality(DOMAIN self.counts)
        other_len == Cardinality(DOMAIN other.counts)
        self_gt_other == IF self_len < other_len THEN PnCounter_a_gt_b(self, other)
                         ELSE IF self_len > other_len THEN TRUE
                         ELSE PnCounter_a_gt_b(self, other)
        other_gt_self == IF self_len < other_len THEN TRUE
                         ELSE PnCounter_a_gt_b(other, self)
    IN IF self_gt_other /\ other_gt_self THEN "None"
       ELSE IF self_gt_other THEN "Greater"
       ELSE IF other_gt_self THEN "Less"
       ELSE "Equal"

\* A faulty a_gt_b, to test the sensitivity of the properties below: the Pn
\* are compared by their count, p - n, and not by p and n.
PnSet_a_gt_b_by_count(a, b) ==
    \/ Cardinality(DOMAIN a) > Cardinality(DOMAIN b)
    \/ \E replica_id \in DOMAIN a :
          IF replica_id \in DOMAIN b
          THEN Pn_count(a[replica_id]) > Pn_count(b[replica_id])
          ELSE TRUE

\* pnset.rs, partial_cmp: fn a_gt_b, on the replica counts of one element.
PnSet_a_gt_b(a, b) ==
    \/ Cardinality(DOMAIN a) > Cardinality(DOMAIN b)
    \/ \E replica_id \in DOMAIN a :
          IF replica_id \in DOMAIN b
          THEN a[replica_id].p > b[replica_id].p \/ a[replica_id].n > b[replica_id].n
          ELSE TRUE

\* pnset.rs, partial_cmp: self_is_greater (other_is_greater is the same with
\* self and other exchanged).
PnSet_self_is_greater(self, other) ==
    \E element \in DOMAIN self.elements :
        IF element \in DOMAIN other.elements
        THEN PnSet_a_gt_b(self.elements[element], other.elements[element])
        ELSE TRUE

\* pnset.rs, impl PartialOrd: partial_cmp.
PnSet_partial_cmp(self, other) ==
    LET self_is_greater == PnSet_self_is_greater(self, other)
        other_is_greater == PnSet_self_is_greater(other, self)
    IN IF self_is_greater /\ other_is_greater THEN "None"
       ELSE IF self_is_greater THEN "Greater"
       ELSE IF other_is_greater THEN "Less"
       ELSE "Equal"

\* ==, partial_cmp and merge of the type a run is about.
IDEq(kind, a, b) ==
    CASE kind = "GCounter" -> GCounter_eq(a, b)
      [] kind = "PnCounter" -> PnCounter_eq(a, b)
      [] kind = "PnSet" -> PnSet_eq(a, b)

IDPartialCmp(kind, a, b) ==
    CASE kind = "GCounter" -> GCounter_partial_cmp(a, b)
      [] kind = "PnCounter" -> PnCounter_partial_cmp(a, b)
      [] kind = "PnSet" -> PnSet_partial_cmp(a, b)

IDMergeOf(kind, a, b) ==
    CASE kind = "GCounter" -> GCounter_merge(a, b)
      [] kind = "PnCounter" -> PnCounter_merge(a, b)
      [] kind = "PnSet" -> PnSet_merge(a, b)

\* What a replica reports: count() of a counter, contains() per element of a set.
IDReport(kind, a) ==
    CASE kind = "GCounter" -> GCounter_count(a)
      [] kind = "PnCounter" -> PnCounter_count(a)
      [] kind = "PnSet" -> [e \in Elements |-> PnSet_contains(a, e)]

\* The replicated contents of a replica: everything but its replica id.
IDContents(kind, a) ==
    IF kind = "PnSet" THEN a.elements ELSE a.counts

IDOther(side) == IF side = "a" THEN "b" ELSE "a"

IDInit ==
    /\ \E id_a \in Replicas : \E id_b \in Replicas \ {id_a} :
          \/ idr = [kind |-> "GCounter", a |-> GCounter_new(id_a), b |-> GCounter_new(id_b)]
          \/ idr = [kind |-> "PnCounter", a |-> PnCounter_new(id_a), b |-> PnCounter_new(id_b)]
          \/ idr = [kind |-> "PnSet", a |-> PnSet_new(id_a), b |-> PnSet_new(id_b)]
    /\ idrSteps = 0
    /\ gc = Idle /\ gcInbox = Idle /\ gcAmounts = Idle
    /\ pc = Idle /\ pcInbox = Idle /\ pcAmounts = Idle
    /\ tp = Idle /\ tpLast = Idle
    /\ lw = Idle /\ lwLast = Idle
    /\ ps = Idle /\ psHist = Idle /\ psSeen = Idle
    /\ paBase = Idle /\ paCur = Idle /\ paApplied = Idle
    /\ reg = Idle /\ regInit = Idle /\ regPool = Idle /\ regApplied = Idle
    /\ lr = Idle /\ lrLast = Idle
    /\ gmIn = Idle /\ gmAcc = Idle /\ gmDone = Idle
    /\ gv = Idle /\ gvHist = Idle /\ gvSeen = Idle
    /\ gs = Idle /\ gsLast = Idle
    /\ taBase = Idle /\ taCur = Idle /\ taApplied = Idle
    /\ laBase = Idle /\ laCur = Idle /\ laApplied = Idle
    /\ pv = Idle /\ pvHist = Idle /\ pvSeen = Idle
    /\ pmIn = Idle /\ pmAcc = Idle /\ pmDone = Idle
    /\ pxSrc = Idle /\ pxOps = Idle /\ pxRecv = Idle

IDGCounterIncrement(side, amount) ==
    /\ idr.kind = "GCounter"
    /\ idrSteps < MaxIdSteps
    /\ idr' = [idr EXCEPT ![side] = GCounter_increment(idr[side], amount).state]
    /\ idrSteps' = idrSteps + 1
    /\ UNCHANGED idrOthers

IDPnCounterIncrement(side, amount) ==
    /\ idr.kind = "PnCounter"
    /\ idrSteps < MaxIdSteps
    /\ idr' = [idr EXCEPT ![side] = PnCounter_increment(idr[side], amount).state]
    /\ idrSteps' = idrSteps + 1
    /\ UNCHANGED idrOthers

IDPnSetInsert(side, element) ==
    /\ idr.kind = "PnSet"
    /\ idrSteps < MaxIdSteps
    /\ idr' = [idr EXCEPT ![side] = PnSet_insert(idr[side], element).state]
    /\ idrSteps' = idrSteps + 1
    /\ UNCHANGED idrOthers

IDPnSetRemove(side, element) ==
    /\ idr.kind = "PnSet"
    /\ idrSteps < MaxIdSteps
    /\ idr' = [idr EXCEPT ![side] = PnSet_remove(idr[side], element).state]
    /\ idrSteps' = idrSteps + 1
    /\ UNCHANGED idrOthers

\* One replica merges a copy of the other.
IDMerge(side) ==
    /\ idrSteps < MaxIdSteps
    /\ idr' = [idr EXCEPT ![side] = IDMergeOf(idr.kind, idr[side], idr[IDOther(side)])]
    /\ idrSteps' = idrSteps + 1
    /\ UNCHANGED idrOthers

IDNext ==
    \/ \E side \in {"a", "b"}, amount \in {0, 1} : IDGCounterIncrement(side, amount)
    \/ \E side \in {"a", "b"}, amount \in {-1, 1} : IDPnCounterIncrement(side, amount)
    \/ \E side \in {"a", "b"}, element \in Elements : IDPnSetInsert(side, element)
    \/ \E side \in {"a", "b"}, element \in Elements : IDPnSetRemove(side, element)
    \/ \E side \in {"a", "b"} : IDMerge(side)

SpecReplicaId == IDInit /\ [][IDNext]_vars

\* C17: equality and ordering ignore the local replica id: two GCounter,
\* PnCounter or PnSet replicas created with different replica ids whose
\* replicated contents are identical compare == and partial_cmp Some(Equal);
\* and changing only the replica_id field of a state never changes the result
\* of ==, partial_cmp, count() or contains().
C17_ReplicaIdIgnored ==
    LET kind == idr.kind
        a == idr.a
        b == idr.b
    IN /\ IDContents(kind, a) = IDContents(kind, b) =>
             /\ IDEq(kind, a, b) /\ IDEq(kind, b, a)
             /\ IDPartialCmp(kind, a, b) = "Equal"
             /\ IDPartialCmp(kind, b, a) = "Equal"
       /\ \A replica_id \in 0..3 :
             LET a_other_id == [a EXCEPT !.replica_id = replica_id]
             IN /\ IDEq(kind, a_other_id, b) = IDEq(kind, a, b)
                /\ IDEq(kind, b, a_other_id) = IDEq(kind, b, a)
                /\ IDPartialCmp(kind, a_other_id, b) = IDPartialCmp(kind, a, b)
                /\ IDPartialCmp(kind, b, a_other_id) = IDPartialCmp(kind, b, a)
                /\ IDReport(kind, a_other_id) = IDReport(kind, a)

\* Witness of C17: two counters with different replica ids have both
\* incremented and merged each other; their counts are identical, with an
\* entry of each replica, and they compare equal.
C17_Witness ==
    /\ idr.kind = "GCounter"
    /\ idr.a.replica_id # idr.b.replica_id
    /\ idr.a.counts = idr.b.counts
    /\ DOMAIN idr.a.counts = Replicas
    /\ \A r \in Replicas : idr.a.counts[r] = 1
    /\ GCounter_eq(idr.a, idr.b)
    /\ GCounter_partial_cmp(idr.a, idr.b) = "Equal"

----------------------------------------------------------------------------
(* GSet: src/src/set/gset.rs.  elements is the set of elements inserted. *)

\* The elements a GSet holds.
GSetElements == {1, 2, 3}

GSet_new == [elements |-> {}]

GSetInsert(element) == [element |-> element]

\* A faulty insert, to test the sensitivity of the properties below: an
\* operation is returned whether or not the element was present.
GSet_insert_always_some(self, element) ==
    [state |-> [self EXCEPT !.elements = self.elements \cup {element}],
     result |-> Some(GSetInsert(element))]

\* fn insert: HashSet::insert is true when the element was not present; the
\* operation is returned only then.
GSet_insert(self, element) ==
    IF element \notin self.elements
    THEN [state |-> [self EXCEPT !.elements = self.elements \cup {element}],
          result |-> Some(GSetInsert(element))]
    ELSE [state |-> self, result |-> None]

GSet_len(self) == Cardinality(self.elements)

GSet_contains(self, value) == value \in self.elements

GSet_is_empty(self) == GSet_len(self) = 0

RECURSIVE GSet_insert_all(_, _)
\* The loop of fn merge: every element of a set is inserted.
GSet_insert_all(self, elements) ==
    IF elements = {} THEN self
    ELSE LET element == CHOOSE e \in elements : TRUE
         IN GSet_insert_all(GSet_insert(self, element).state, elements \ {element})

\* A faulty merge, to test the sensitivity of the properties below: the set
\* takes the elements of other and loses its own.
GSet_merge_replacing(self, other) == [self EXCEPT !.elements = other.elements]

GSet_merge(self, other) == GSet_insert_all(self, other.elements)

GSet_apply(self, operation) == GSet_insert(self, operation.element).state

GSet_eq(self, other) == self.elements = other.elements

\* impl PartialOrd: partial_cmp, as "Equal", "Less", "Greater" or "None".
GSet_partial_cmp(self, other) ==
    IF self.elements = other.elements THEN "Equal"
    ELSE IF self.elements \subseteq other.elements THEN "Less"
    ELSE IF other.elements \subseteq self.elements THEN "Greater"
    ELSE "None"

\* a <= b, as PartialOrd derives it from partial_cmp.
GSet_le(a, b) == GSet_partial_cmp(a, b) \in {"Less", "Equal"}

GSInit ==
    /\ gs = [r \in Replicas |-> GSet_new]
    /\ gsLast = [op |-> "new"]
    /\ gc = Idle /\ gcInbox = Idle /\ gcAmounts = Idle
    /\ pc = Idle /\ pcInbox = Idle /\ pcAmounts = Idle
    /\ tp = Idle /\ tpLast = Idle
    /\ lw = Idle /\ lwLast = Idle
    /\ ps = Idle /\ psHist = Idle /\ psSeen = Idle
    /\ paBase = Idle /\ paCur = Idle /\ paApplied = Idle
    /\ reg = Idle /\ regInit = Idle /\ regPool = Idle /\ regApplied = Idle
    /\ lr = Idle /\ lrLast = Idle
    /\ gmIn = Idle /\ gmAcc = Idle /\ gmDone = Idle
    /\ gv = Idle /\ gvHist = Idle /\ gvSeen = Idle
    /\ idr = Idle /\ idrSteps = Idle
    /\ taBase = Idle /\ taCur = Idle /\ taApplied = Idle
    /\ laBase = Idle /\ laCur = Idle /\ laApplied = Idle
    /\ pv = Idle /\ pvHist = Idle /\ pvSeen = Idle
    /\ pmIn = Idle /\ pmAcc = Idle /\ pmDone = Idle
    /\ pxSrc = Idle /\ pxOps = Idle /\ pxRecv = Idle

GSInsert(r, element) ==
    /\ LET res == GSet_insert(gs[r], element)
       IN /\ gs' = [gs EXCEPT ![r] = res.state]
          /\ gsLast' = [op |-> "insert", r |-> r, element |-> element,
                        before |-> gs[r], result |-> res.result]
    /\ UNCHANGED gsOthers

\* Operation-based replication: an insert operation arrives at r (any
\* operation, any number of times).
GSApply(r, operation) ==
    /\ gs' = [gs EXCEPT ![r] = GSet_apply(gs[r], operation)]
    /\ gsLast' = [op |-> "apply", r |-> r, element |-> operation.element,
                  before |-> gs[r]]
    /\ UNCHANGED gsOthers

\* State-based replication: r merges a copy of s.
GSMerge(r, s) ==
    /\ r # s
    /\ gs' = [gs EXCEPT ![r] = GSet_merge(gs[r], gs[s])]
    /\ gsLast' = [op |-> "merge", r |-> r, s |-> s, before |-> gs[r]]
    /\ UNCHANGED gsOthers

GSNext ==
    \/ \E r \in Replicas, element \in GSetElements : GSInsert(r, element)
    \/ \E r \in Replicas, element \in GSetElements : GSApply(r, GSetInsert(element))
    \/ \E r \in Replicas, s \in Replicas : GSMerge(r, s)

SpecGSet == GSInit /\ [][GSNext]_vars

\* C18: the direction of the replica order as documented on the Crdt trait:
\* if B has been merged into A (A.merge(B)), then A <= B.
C18_OrderDirectionAsDocumented ==
    gsLast.op = "merge" => GSet_le(gs[gsLast.r], gs[gsLast.s])

\* C19: GSet.insert(e) returns Some(operation carrying e) iff e was not
\* already in the set, and None otherwise; in both cases e is a member
\* afterwards and no other element's membership changes.
C19_GSetInsert ==
    gsLast.op = "insert" =>
        LET before == gsLast.before
            after == gs[gsLast.r]
            e == gsLast.element
        IN /\ IF GSet_contains(before, e)
              THEN gsLast.result = None
              ELSE gsLast.result = Some(GSetInsert(e))
           /\ GSet_contains(after, e)
           /\ \A x \in GSetElements \ {e} :
                 GSet_contains(after, x) <=> GSet_contains(before, x)

\* Witness of C19: an element already in a set of two elements has been
\* inserted again and None was returned.
C19_Witness ==
    /\ gsLast.op = "insert"
    /\ GSet_contains(gsLast.before, gsLast.element)
    /\ GSet_len(gsLast.before) = 2
    /\ gsLast.result = None
    /\ GSet_len(gs[gsLast.r]) = 2

\* C20: GSet is grow-only and merge is set union: after insert, apply or
\* merge the element set of the replica is a superset of its element set
\* before; after a.merge(b) the elements of a are exactly the union of the
\* previous elements of a and the elements of b; and a.partial_cmp(b) is
\* Equal / Less / Greater / None exactly as a's elements are equal to / a
\* proper subset of / a proper superset of / neither relative to b's.
C20_GSetGrowOnlyUnion ==
    /\ gsLast.op \in {"insert", "apply", "merge"} =>
          gsLast.before.elements \subseteq gs[gsLast.r].elements
    /\ gsLast.op = "merge" =>
          gs[gsLast.r].elements = gsLast.before.elements \cup gs[gsLast.s].elements
    /\ \A r \in Replicas, s \in Replicas :
          LET a == gs[r].elements
              b == gs[s].elements
              cmp == GSet_partial_cmp(gs[r], gs[s])
          IN /\ cmp = "Equal" <=> a = b
             /\ cmp = "Less" <=> (a \subseteq b /\ a # b)
             /\ cmp = "Greater" <=> (b \subseteq a /\ a # b)
             /\ cmp = "None" <=> (~(a \subseteq b) /\ ~(b \subseteq a))

\* Witness of C20: a replica holding one element has merged a replica holding
\* another one, and now holds both.
C20_Witness ==
    /\ gsLast.op = "merge"
    /\ gsLast.before.elements = {1}
    /\ gs[gsLast.s].elements = {2}
    /\ gs[gsLast.r].elements = {1, 2}
    /\ GSet_partial_cmp(gs[gsLast.r], gs[gsLast.s]) = "Greater"
    /\ GSet_partial_cmp(gsLast.before, gs[gsLast.s]) = "None"

----------------------------------------------------------------------------
(* TpSet: insert and remove, as steps of SpecTpSet. *)

\* C21: TpSet.insert(e) succeeds only when e has no entry at all: if the map
\* has no entry for e the step records e as present and returns
\* Some(Insert(e)); if any entry exists for e (present or removed) it returns
\* None and leaves the whole map unchanged.
C21_TpSetInsert ==
    [][tpLast'.op = "insert" =>
          LET r == tpLast'.r
              e == tpLast'.element
          IN IF e \notin DOMAIN tp[r].elements
             THEN /\ tp'[r].elements = MapPut(tp[r].elements, e, TRUE)
                  /\ tpLast'.result = Some(TpSetOp_Insert(e))
             ELSE /\ tp'[r].elements = tp[r].elements
                  /\ tpLast'.result = None]_vars

\* Witness of C21: an insert of an element whose entry is a removal has
\* returned None, and the entry is still the removal.
C21_Witness ==
    /\ tpLast.op = "insert"
    /\ tpLast.result = None
    /\ TpSet_removed(tp[tpLast.r], tpLast.element)

\* C22: TpSet.remove(e) succeeds when e is currently present or has no entry
\* at all: in both cases the entry for e becomes false and Some(Remove(e)) is
\* returned, so that a later insert of e is refused; when e is already
\* removed it returns None and leaves the map unchanged.
C22_TpSetRemove ==
    [][tpLast'.op = "remove" =>
          LET r == tpLast'.r
              e == tpLast'.element
          IN IF e \notin DOMAIN tp[r].elements \/ tp[r].elements[e]
             THEN /\ tp'[r].elements = MapPut(tp[r].elements, e, FALSE)
                  /\ tpLast'.result = Some(TpSetOp_Remove(e))
                  /\ TpSet_insert(tp'[r], e).result = None
                  /\ ~TpSet_contains(TpSet_insert(tp'[r], e).state, e)
             ELSE /\ tp'[r].elements = tp[r].elements
                  /\ tpLast'.result = None]_vars

\* Witness of C22: a remove has succeeded on a replica that holds no present
\* element at all, so the element removed was never inserted there, while the
\* other replica holds it as present.
C22_Witness ==
    /\ tpLast.op = "remove"
    /\ tpLast.result = Some(TpSetOp_Remove(tpLast.element))
    /\ DOMAIN tp[tpLast.r].elements = {tpLast.element}
    /\ \E s \in Replicas : TpSet_contains(tp[s], tpLast.element)

\* C24: the TpSet order is antisymmetric and agrees with equality: for all
\* states a and b, a == b iff (a <= b and b <= a); in particular two states
\* that each hold an entry the other lacks are not both <= each other.
C24_TpSetOrderAntisymmetric ==
    \A r \in Replicas, s \in Replicas :
        LET a == tp[r]
            b == tp[s]
            a_le_b == TpSet_partial_cmp(a, b) \in {"Less", "Equal"}
            b_le_a == TpSet_partial_cmp(b, a) \in {"Less", "Equal"}
        IN TpSet_eq(a, b) <=> (a_le_b /\ b_le_a)

----------------------------------------------------------------------------
(* TpSet::apply under at-least-once, unordered delivery: one replica       *)
(* applies operations of both kinds in any order, any number of times      *)
(* (tpset.rs check_apply_is_commutative folds every permutation).          *)

\* The states a run starts from: every element absent, present or removed.
TpSetBases ==
    {[elements |-> m] : m \in UNION {[keys -> BOOLEAN] : keys \in SUBSET Elements}}

RECURSIVE TpSet_apply_all(_, _)
\* The operations of ops applied once each, in one fixed order.
TpSet_apply_all(self, ops) ==
    IF ops = {} THEN self
    ELSE LET operation == CHOOSE o \in ops : TRUE
         IN TpSet_apply_all(TpSet_apply(self, operation), ops \ {operation})

TAInit ==
    /\ taBase \in TpSetBases
    /\ taCur = taBase
    /\ taApplied = {}
    /\ gc = Idle /\ gcInbox = Idle /\ gcAmounts = Idle
    /\ pc = Idle /\ pcInbox = Idle /\ pcAmounts = Idle
    /\ tp = Idle /\ tpLast = Idle
    /\ lw = Idle /\ lwLast = Idle
    /\ ps = Idle /\ psHist = Idle /\ psSeen = Idle
    /\ paBase = Idle /\ paCur = Idle /\ paApplied = Idle
    /\ reg = Idle /\ regInit = Idle /\ regPool = Idle /\ regApplied = Idle
    /\ lr = Idle /\ lrLast = Idle
    /\ gmIn = Idle /\ gmAcc = Idle /\ gmDone = Idle
    /\ gv = Idle /\ gvHist = Idle /\ gvSeen = Idle
    /\ idr = Idle /\ idrSteps = Idle
    /\ gs = Idle /\ gsLast = Idle
    /\ laBase = Idle /\ laCur = Idle /\ laApplied = Idle
    /\ pv = Idle /\ pvHist = Idle /\ pvSeen = Idle
    /\ pmIn = Idle /\ pmAcc = Idle /\ pmDone = Idle
    /\ pxSrc = Idle /\ pxOps = Idle /\ pxRecv = Idle

\* An operation is delivered: a new one, or one delivered before.
TAApply(operation) ==
    /\ taCur' = TpSet_apply(taCur, operation)
    /\ taApplied' = taApplied \cup {operation}
    /\ UNCHANGED <<taBase, taOthers>>

TANext == \E operation \in TpSetOps : TAApply(operation)

SpecTpSetApply == TAInit /\ [][TANext]_vars

\* C23: TpSet apply is order-independent over both operation kinds: starting
\* from the same state, applying a collection of Insert and Remove operations
\* (an Insert and a Remove of the same element included) in any order and
\* with any operation repeated gives the state that applying each operation
\* once, in one fixed order, gives; so all such runs end in equal states.
C23_TpSetApplyAnyOrder ==
    TpSet_eq(taCur, TpSet_apply_all(taBase, taApplied))

\* Witness of C23: an Insert and a Remove of an element the starting state
\* had no entry for have both been applied, together with an operation on the
\* other element, and the element is removed.
C23_Witness ==
    \E e \in Elements :
        /\ e \notin DOMAIN taBase.elements
        /\ {TpSetOp_Insert(e), TpSetOp_Remove(e)} \subseteq taApplied
        /\ Cardinality(taApplied) = 3
        /\ TpSet_removed(taCur, e)

----------------------------------------------------------------------------
(* LwwSet::apply under at-least-once, unordered delivery                   *)
(* (lwwset.rs check_apply_is_commutative folds every permutation).         *)

\* The states a run starts from: every element absent, or present / removed
\* at any transaction id.
LwwSetBases ==
    {[elements |-> m] :
        m \in UNION {[keys -> BOOLEAN \X TransactionIds] : keys \in SUBSET Elements}}

RECURSIVE LwwSet_apply_all(_, _)
\* The operations of ops applied once each, in one fixed order.
LwwSet_apply_all(self, ops) ==
    IF ops = {} THEN self
    ELSE LET operation == CHOOSE o \in ops : TRUE
         IN LwwSet_apply_all(LwwSet_apply(self, operation), ops \ {operation})

LAInit ==
    /\ laBase \in LwwSetBases
    /\ laCur = laBase
    /\ laApplied = {}
    /\ gc = Idle /\ gcInbox = Idle /\ gcAmounts = Idle
    /\ pc = Idle /\ pcInbox = Idle /\ pcAmounts = Idle
    /\ tp = Idle /\ tpLast = Idle
    /\ lw = Idle /\ lwLast = Idle
    /\ ps = Idle /\ psHist = Idle /\ psSeen = Idle
    /\ paBase = Idle /\ paCur = Idle /\ paApplied = Idle
    /\ reg = Idle /\ regInit = Idle /\ regPool = Idle /\ regApplied = Idle
    /\ lr = Idle /\ lrLast = Idle
    /\ gmIn = Idle /\ gmAcc = Idle /\ gmDone = Idle
    /\ gv = Idle /\ gvHist = Idle /\ gvSeen = Idle
    /\ idr = Idle /\ idrSteps = Idle
    /\ gs = Idle /\ gsLast = Idle
    /\ taBase = Idle /\ taCur = Idle /\ taApplied = Idle
    /\ pv = Idle /\ pvHist = Idle /\ pvSeen = Idle
    /\ pmIn = Idle /\ pmAcc = Idle /\ pmDone = Idle
    /\ pxSrc = Idle /\ pxOps = Idle /\ pxRecv = Idle

\* An operation is delivered: a new one, or one delivered before.
LAApply(operation) ==
    /\ Cardinality(laApplied \cup {operation}) <= MaxApplied
    /\ laCur' = LwwSet_apply(laCur, operation)
    /\ laApplied' = laApplied \cup {operation}
    /\ UNCHANGED <<laBase, laOthers>>

LANext == \E operation \in LwwSetOps : LAApply(operation)

SpecLwwSetApply == LAInit /\ [][LANext]_vars

\* C26: LwwSet apply is order-independent over both operation kinds: starting
\* from the same state, applying a collection of Insert(e, tid) and
\* Remove(e, tid) operations (equal transaction ids on the same element
\* included) in any order and with any operation repeated gives the state
\* that applying each operation once, in one fixed order, gives; so all such
\* runs end in equal states.
C26_LwwSetApplyAnyOrder ==
    LwwSet_eq(laCur, LwwSet_apply_all(laBase, laApplied))

\* Witness of C26: an Insert and a Remove of the same element at the same
\* transaction id, newer than the starting state's entry, have both been
\* applied, and the element is present at that id.
C26_Witness ==
    \E e \in Elements, t \in TransactionIds :
        /\ e \in DOMAIN laBase.elements
        /\ laBase.elements[e][2] < t
        /\ laApplied = {LwwSetOp_Insert(e, t), LwwSetOp_Remove(e, t)}
        /\ laCur.elements[e] = <<TRUE, t>>

----------------------------------------------------------------------------
(* LwwSet: the order after a merge and an insert, on the replicas of       *)
(* SpecLwwSet.                                                             *)

\* C25: LwwSet strict growth after a newest insert: for all states a and b,
\* after a.merge(b) followed by a.insert(e, T), where T is the maximum
\* transaction id, a > b and b < a hold.
C25_LwwSetStrictGrowth ==
    \A r \in Replicas, s \in Replicas :
        LET b == lw[s]
            merged == LwwSet_merge(lw[r], b)
            a == LwwSet_insert(merged, 1, MaxTid).state
        IN /\ LwwSet_partial_cmp(a, b) = "Greater"
           /\ LwwSet_partial_cmp(b, a) = "Less"

----------------------------------------------------------------------------
(* PnSet: merge and the order on arbitrary sets (test.rs                   *)
(* merge_is_commutative, ordering_lte, ordering_equality): a starting set  *)
(* and two other sets are drawn as quickcheck draws them, and the others   *)
(* are merged into the starting set in either order.                       *)

\* The Pn an arbitrary set holds: zero, an insert, a remove.
PnMergeValues == {[p |-> 0, n |-> 0], [p |-> 1, n |-> 0], [p |-> 0, n |-> 1]}

\* The replica counts of one element: any replicas, empty included.
PnSetCounts == UNION {[keys -> PnMergeValues] : keys \in SUBSET Replicas}

\* The (element, replica) pairs a map of elements holds a Pn for.
PnSetSlots(elements) ==
    {slot \in Elements \X Replicas :
        /\ slot[1] \in DOMAIN elements
        /\ slot[2] \in DOMAIN elements[slot[1]]}

\* The arbitrary sets of a run: any elements, with at most one Pn in all
\* (merging them gives sets that hold more).
PnSetStates(replica_id) ==
    {[replica_id |-> replica_id, elements |-> elements] :
        elements \in {m \in UNION {[keys -> PnSetCounts] : keys \in SUBSET Elements} :
                         Cardinality(PnSetSlots(m)) <= 1}}

\* a <= b and a >= b, as PartialOrd derives them from partial_cmp.
PnSet_le(a, b) == PnSet_partial_cmp(a, b) \in {"Less", "Equal"}

PnSet_ge(a, b) == PnSet_partial_cmp(a, b) \in {"Greater", "Equal"}

RECURSIVE PnSet_merge_all(_, _)
\* The fold of merge over a sequence of sets, from left to right.
PnSet_merge_all(crdt, others) ==
    IF others = << >> THEN crdt
    ELSE PnSet_merge_all(PnSet_merge(crdt, Head(others)), Tail(others))

PMInit ==
    /\ pmIn \in PnSetStates(1) \X PnSetStates(2) \X PnSetStates(3)
    /\ pmAcc = pmIn[1]
    /\ pmDone = << >>
    /\ gc = Idle /\ gcInbox = Idle /\ gcAmounts = Idle
    /\ pc = Idle /\ pcInbox = Idle /\ pcAmounts = Idle
    /\ tp = Idle /\ tpLast = Idle
    /\ lw = Idle /\ lwLast = Idle
    /\ ps = Idle /\ psHist = Idle /\ psSeen = Idle
    /\ paBase = Idle /\ paCur = Idle /\ paApplied = Idle
    /\ reg = Idle /\ regInit = Idle /\ regPool = Idle /\ regApplied = Idle
    /\ lr = Idle /\ lrLast = Idle
    /\ gmIn = Idle /\ gmAcc = Idle /\ gmDone = Idle
    /\ gv = Idle /\ gvHist = Idle /\ gvSeen = Idle
    /\ idr = Idle /\ idrSteps = Idle
    /\ gs = Idle /\ gsLast = Idle
    /\ taBase = Idle /\ taCur = Idle /\ taApplied = Idle
    /\ laBase = Idle /\ laCur = Idle /\ laApplied = Idle
    /\ pv = Idle /\ pvHist = Idle /\ pvSeen = Idle
    /\ pxSrc = Idle /\ pxOps = Idle /\ pxRecv = Idle

\* The next set of a permutation is merged into the accumulator.
PMMerge(i) ==
    /\ \A k \in 1..Len(pmDone) : pmDone[k] # i
    /\ pmAcc' = PnSet_merge(pmAcc, pmIn[i])
    /\ pmDone' = Append(pmDone, i)
    /\ UNCHANGED <<pmIn, pmOthers>>

PMNext == \E i \in 2..3 : PMMerge(i)

SpecPnSetMerge == PMInit /\ [][PMNext]_vars

\* The sets merged so far, folded into the starting set in the order of
\* their indices.
PMReference ==
    LET merged == {pmDone[k] : k \in 1..Len(pmDone)}
        pick(i) == IF i \in merged THEN <<pmIn[i]>> ELSE << >>
    IN PnSet_merge_all(pmIn[1], pick(2) \o pick(3))

\* C27: PnSet.merge is a semilattice join: for all sets a, b, c,
\* merge(a, a) == a, merge(a, b) == merge(b, a) and
\* merge(merge(a, b), c) == merge(a, merge(b, c)); and folding any
\* permutation of a list of sets into the same starting set by merge gives
\* equal results.  The first two laws are checked of the accumulator too.
C27_PnSetMergeSemilattice ==
    LET a == pmIn[1]
        b == pmIn[2]
        c == pmIn[3]
    IN /\ PnSet_eq(PnSet_merge(a, a), a)
       /\ PnSet_eq(PnSet_merge(a, b), PnSet_merge(b, a))
       /\ PnSet_eq(PnSet_merge(PnSet_merge(a, b), c),
                   PnSet_merge(a, PnSet_merge(b, c)))
       /\ PnSet_eq(PnSet_merge(pmAcc, pmAcc), pmAcc)
       /\ \A i \in 1..3 :
             PnSet_eq(PnSet_merge(pmAcc, pmIn[i]), PnSet_merge(pmIn[i], pmAcc))
       /\ PnSet_eq(pmAcc, PMReference)

\* Witness of C27: the two sets have been merged into the starting set in
\* the order opposite to that of their indices; they hold an insert and a
\* remove of the same element by the same replica, the starting set holds
\* another element, and the accumulator holds all three.
C27_Witness ==
    /\ pmDone = <<3, 2>>
    /\ pmIn[1].elements = (2 :> (1 :> [p |-> 1, n |-> 0]))
    /\ pmIn[2].elements = (1 :> (2 :> [p |-> 1, n |-> 0]))
    /\ pmIn[3].elements = (1 :> (2 :> [p |-> 0, n |-> 1]))
    /\ pmAcc.elements = (1 :> (2 :> [p |-> 1, n |-> 1])) @@ (2 :> (1 :> [p |-> 1, n |-> 0]))

\* C28: PnSet order and merge agree: for all sets a and b, after a.merge(b),
\* a >= b and b <= a; after a.merge(b) followed by b.merge(a), a == b and
\* partial_cmp is Some(Equal) in both directions; and partial_cmp is
\* Some(Equal) only when a == b.  The same is checked of the accumulator of
\* the run against every set merged into it.
C28_PnSetOrderAgreesWithMerge ==
    /\ \A i \in 1..3, j \in 1..3 :
          LET a == pmIn[i]
              b == pmIn[j]
              a_merged == PnSet_merge(a, b)
              b_merged == PnSet_merge(b, a_merged)
          IN /\ PnSet_ge(a_merged, b) /\ PnSet_le(b, a_merged)
             /\ PnSet_eq(a_merged, b_merged) /\ PnSet_eq(b_merged, a_merged)
             /\ PnSet_partial_cmp(a_merged, b_merged) = "Equal"
             /\ PnSet_partial_cmp(b_merged, a_merged) = "Equal"
             /\ PnSet_partial_cmp(a, b) = "Equal" => PnSet_eq(a, b)
             /\ PnSet_partial_cmp(a_merged, b) = "Equal" => PnSet_eq(a_merged, b)
    /\ \A i \in 1..3 :
          /\ PnSet_partial_cmp(pmAcc, pmIn[i]) = "Equal" => PnSet_eq(pmAcc, pmIn[i])
          /\ PnSet_partial_cmp(pmIn[i], pmAcc) = "Equal" => PnSet_eq(pmIn[i], pmAcc)
    /\ \A k \in 1..Len(pmDone) :
          LET b == pmIn[pmDone[k]]
          IN /\ PnSet_ge(pmAcc, b) /\ PnSet_le(b, pmAcc)
             /\ PnSet_partial_cmp(PnSet_merge(b, pmAcc), pmAcc) = "Equal"

\* Witness of C28: a set that is not ordered with the starting set has been
\* merged into it; the accumulator is strictly greater than that set, and
\* merging the accumulator back into that set makes the two equal.
C28_Witness ==
    /\ pmDone = <<2>>
    /\ PnSet_partial_cmp(pmIn[1], pmIn[2]) = "None"
    /\ PnSet_partial_cmp(pmAcc, pmIn[2]) = "Greater"
    /\ PnSet_partial_cmp(pmIn[2], pmAcc) = "Less"
    /\ PnSet_eq(PnSet_merge(pmIn[2], pmAcc), pmAcc)

----------------------------------------------------------------------------
(* PnSet: the calls of one replica that has received no other replica's    *)
(* state, on the replicas of SpecPnSet.                                    *)

\* Replica x has merged nothing that holds a call of another replica.
PSLocalOnly(x) == \A r \in PnSetReplicas \ {x} : psSeen[x][r] = 0

\* C29: PnSet local counting: on a single fresh replica, after any
\* interleaving of i insert(e) calls and j remove(e) calls, contains(e) is
\* true iff i > j; remove(e) on a set that never contained e followed by one
\* insert(e) leaves e not a member, and two inserts followed by one remove
\* leave e a member.
C29_PnSetLocalCounting ==
    \A x \in PnSetReplicas, e \in Elements :
        PSLocalOnly(x) =>
            /\ PnSet_contains(ps[x], e) <=>
                  PSCallCount(x, Len(psHist[x]), "insert", e)
                      > PSCallCount(x, Len(psHist[x]), "remove", e)
            /\ psHist[x] = << <<"remove", e>>, <<"insert", e>> >>
                  => ~PnSet_contains(ps[x], e)
            /\ psHist[x] = << <<"insert", e>>, <<"insert", e>>, <<"remove", e>> >>
                  => PnSet_contains(ps[x], e)

\* Witness of C29: a replica that has received nothing removed an element it
\* never held and then inserted it; the element is not a member.
C29_Witness ==
    \E x \in PnSetReplicas, e \in Elements :
        /\ PSLocalOnly(x)
        /\ psHist[x] = << <<"remove", e>>, <<"insert", e>> >>
        /\ e \in DOMAIN ps[x].elements
        /\ ~PnSet_contains(ps[x], e)

----------------------------------------------------------------------------
(* PnCounter, state-based replication: replicas increment and decrement    *)
(* locally and merge copies of each other; no operation is applied.        *)

PVInit ==
    /\ pv = [r \in Replicas |-> PnCounter_new(r)]
    /\ pvHist = [r \in Replicas |-> << >>]
    /\ pvSeen = [x \in Replicas |-> [r \in Replicas |-> 0]]
    /\ gc = Idle /\ gcInbox = Idle /\ gcAmounts = Idle
    /\ pc = Idle /\ pcInbox = Idle /\ pcAmounts = Idle
    /\ tp = Idle /\ tpLast = Idle
    /\ lw = Idle /\ lwLast = Idle
    /\ ps = Idle /\ psHist = Idle /\ psSeen = Idle
    /\ paBase = Idle /\ paCur = Idle /\ paApplied = Idle
    /\ reg = Idle /\ regInit = Idle /\ regPool = Idle /\ regApplied = Idle
    /\ lr = Idle /\ lrLast = Idle
    /\ gmIn = Idle /\ gmAcc = Idle /\ gmDone = Idle
    /\ gv = Idle /\ gvHist = Idle /\ gvSeen = Idle
    /\ idr = Idle /\ idrSteps = Idle
    /\ gs = Idle /\ gsLast = Idle
    /\ taBase = Idle /\ taCur = Idle /\ taApplied = Idle
    /\ laBase = Idle /\ laCur = Idle /\ laApplied = Idle
    /\ pmIn = Idle /\ pmAcc = Idle /\ pmDone = Idle
    /\ pxSrc = Idle /\ pxOps = Idle /\ pxRecv = Idle

\* The number of increment calls so far, over all replicas.
PVCalls == SumOver([r \in Replicas |-> Len(pvHist[r])], Replicas)

\* A replica increments by a positive, zero or negative amount; the returned
\* operation is dropped.
PVIncrement(r, amount) ==
    /\ PVCalls < MaxIncrements
    /\ pv' = [pv EXCEPT ![r] = PnCounter_increment(pv[r], amount).state]
    /\ pvHist' = [pvHist EXCEPT ![r] = Append(pvHist[r], amount)]
    /\ pvSeen' = [pvSeen EXCEPT ![r][r] = Len(pvHist[r]) + 1]
    /\ UNCHANGED pvOthers

\* x merges a copy of y, and with it whatever y has received.
PVMerge(x, y) ==
    /\ x # y
    /\ pv' = [pv EXCEPT ![x] = PnCounter_merge(pv[x], pv[y])]
    /\ pvSeen' = [pvSeen EXCEPT ![x] =
                     [r \in Replicas |-> Max(pvSeen[x][r], pvSeen[y][r])]]
    /\ UNCHANGED <<pvHist, pvOthers>>

PVNext ==
    \/ \E r \in Replicas, amount \in (-MaxAmount)..MaxAmount : PVIncrement(r, amount)
    \/ \E x \in Replicas, y \in Replicas : PVMerge(x, y)

SpecPnCounterState == PVInit /\ [][PVNext]_vars

\* Replica x has merged nothing that holds an increment of another replica.
PVLocalOnly(x) == \A r \in Replicas \ {x} : pvSeen[x][r] = 0

\* C30: PnCounter local counting: on a fresh counter, after any sequence of
\* increment(amount) calls with positive, zero and negative amounts, count()
\* is the signed sum of the amounts; and when one replica increments by a
\* negative amount and another by a positive one (-12 and 13 in the
\* documentation), merging one into the other gives the sum of the two.
C30_PnCounterLocalCounting ==
    /\ \A x \in Replicas :
          PVLocalOnly(x) => PnCounter_count(pv[x]) = SumSeq(pvHist[x])
    /\ \A x \in Replicas, y \in Replicas :
          ( /\ x # y
            /\ Len(pvHist[x]) = 1 /\ pvHist[x][1] < 0
            /\ Len(pvHist[y]) = 1 /\ pvHist[y][1] > 0
            /\ pvSeen[x][y] = 1 )
              => PnCounter_count(pv[x]) = pvHist[x][1] + pvHist[y][1]

\* Witness of C30: one replica has incremented by -1 and the other by 2, the
\* first has merged the second and counts 1, and the second, which has
\* merged nothing, counts 2.
C30_Witness ==
    /\ pvHist[1] = <<-1>> /\ pvHist[2] = <<2>>
    /\ pvSeen[1][2] = 1 /\ PVLocalOnly(2)
    /\ PnCounter_count(pv[1]) = 1
    /\ PnCounter_count(pv[2]) = 2

----------------------------------------------------------------------------
(* GCounter: the operation increment returns, on the replicas of           *)
(* SpecGCounter.                                                           *)

\* C31: GCounter.increment(amount) returns an operation that carries the
\* local replica id together with the local replica's resulting total count
\* after the increment (an absolute snapshot), not the amount of the call.
C31_GCounterIncrementSnapshot ==
    \A r \in Replicas, amount \in 0..MaxAmount :
        LET res == GCounter_increment(gc[r], amount)
        IN /\ res.operation.replica_id = gc[r].replica_id
           /\ res.operation.amount = res.state.counts[gc[r].replica_id]

----------------------------------------------------------------------------
(* TpSet: merge as a join, on the replicas of SpecTpSet.                   *)

\* The entry the claim gives element e after a.merge(b): "false" if a or b
\* held false for e, otherwise "true" if a or b held true, otherwise "absent".
TpSetJoinEntry(a, b, e) ==
    IF TpSet_removed(a, e) \/ TpSet_removed(b, e) THEN "false"
    ELSE IF e \in DOMAIN a.elements \/ e \in DOMAIN b.elements THEN "true"
    ELSE "absent"

\* The entry a set holds for element e, in the same terms.
TpSetEntry(self, e) ==
    IF e \notin DOMAIN self.elements THEN "absent"
    ELSE IF self.elements[e] THEN "true" ELSE "false"

\* C32: TpSet.merge is the per-element join with removal dominating: after
\* a.merge(b), for every element e the entry in a is false if a or b held
\* false for e, otherwise true if a or b held true, otherwise absent; when
\* local inserts 1 and remote inserts 1, inserts 2 and removes 1,
\* local.merge(remote) gives contains(2), not contains(1) and len() == 1; and
\* merge is commutative, associative and idempotent.  The first part is
\* checked of the merge a replica has just made, too.
C32_TpSetMergeJoin ==
    /\ \A r \in Replicas, s \in Replicas :
          LET a == tp[r]
              b == tp[s]
              merged == TpSet_merge(a, b)
          IN /\ \A e \in Elements : TpSetEntry(merged, e) = TpSetJoinEntry(a, b, e)
             /\ ( /\ a.elements = (1 :> TRUE)
                  /\ b.elements = (1 :> FALSE) @@ (2 :> TRUE) )
                   => /\ TpSet_contains(merged, 2)
                      /\ ~TpSet_contains(merged, 1)
                      /\ TpSet_len(merged) = 1
             /\ TpSet_eq(TpSet_merge(a, a), a)
             /\ TpSet_eq(merged, TpSet_merge(b, a))
             /\ \A c \in TpSetBases :
                   TpSet_eq(TpSet_merge(merged, c), TpSet_merge(a, TpSet_merge(b, c)))
    /\ tpLast.op = "merge" =>
          \A e \in Elements :
              TpSetEntry(tp[tpLast.r], e) = TpSetJoinEntry(tpLast.before, tp[tpLast.s], e)

\* Witness of C32: local held 1; remote had inserted 1, inserted 2 and
\* removed 1; local has just merged remote and holds 2 and the removal of 1.
C32_Witness ==
    /\ tpLast.op = "merge"
    /\ tpLast.before.elements = (1 :> TRUE)
    /\ tp[tpLast.s].elements = (1 :> FALSE) @@ (2 :> TRUE)
    /\ TpSet_contains(tp[tpLast.r], 2)
    /\ ~TpSet_contains(tp[tpLast.r], 1)
    /\ TpSet_len(tp[tpLast.r]) = 1

----------------------------------------------------------------------------
(* GCounter: the counts over the steps of SpecGCounter.                    *)

\* counts.get(r), with no entry read as 0.
GCounter_slot(self, r) == IF r \in DOMAIN self.counts THEN self.counts[r] ELSE 0

\* C33: GCounter per-replica counts are monotone: for every fixed replica id
\* r, the value counts[r] held by a given replica never decreases across
\* increment, apply or merge (and an entry is never dropped), and therefore
\* count() never decreases.
C33_GCounterCountsMonotone ==
    [][\A x \in Replicas :
          /\ DOMAIN gc[x].counts \subseteq DOMAIN gc'[x].counts
          /\ \A r \in Replicas : GCounter_slot(gc'[x], r) >= GCounter_slot(gc[x], r)
          /\ GCounter_count(gc'[x]) >= GCounter_count(gc[x])]_vars

\* Witness of C33: a replica holds, for another replica, a count greater than
\* the one that replica holds for itself (it merged the state and applied the
\* operation), so a further merge of that replica must keep the greater one.
C33_Witness ==
    \E x \in Replicas, r \in Replicas :
        /\ x # r
        /\ r \in DOMAIN gc[x].counts /\ r \in DOMAIN gc[r].counts
        /\ gc[x].counts[r] > gc[r].counts[r]
        /\ gc[r].counts[r] > 0
        /\ GCounter_merge(gc[x], gc[r]) = gc[x]

----------------------------------------------------------------------------
(* LwwRegister: the transaction id over the steps of SpecLwwRegisterSet.   *)

\* The transaction id the step to the next state carried to replica r: that
\* of the set call, of the state merged, or of the operation applied.
RSCarried ==
    CASE lrLast'.op = "set" -> lrLast'.transaction_id
      [] lrLast'.op = "merge" -> LwwRegister_transaction_id(lr[lrLast'.s])
      [] lrLast'.op = "apply" -> LwwRegister_transaction_id(lrLast'.operation)

\* C34: LwwRegister transaction id is weakly monotone and the value changes
\* only with it: across any sequence of set, merge and apply on one register,
\* transaction_id() never decreases, and whenever get() changes, the
\* operation that changed it carried a transaction id >= the register's
\* previous transaction id.
C34_LwwRegisterTidMonotone ==
    [][\A r \in Replicas :
          /\ LwwRegister_transaction_id(lr'[r]) >= LwwRegister_transaction_id(lr[r])
          /\ LwwRegister_get(lr'[r]) # LwwRegister_get(lr[r]) =>
                /\ lrLast'.r = r
                /\ RSCarried >= LwwRegister_transaction_id(lr[r])
                /\ LwwRegister_transaction_id(lr'[r]) = RSCarried]_vars

\* Witness of C34: a replica has just merged a state with a newer transaction
\* id and another value, and holds that value and transaction id.
C34_Witness ==
    /\ lrLast.op = "merge"
    /\ lr[lrLast.s].transaction_id > lrLast.before.transaction_id
    /\ lr[lrLast.s].value # lrLast.before.value
    /\ lr[lrLast.r] = lr[lrLast.s]

----------------------------------------------------------------------------
(* LwwSet: the stored transaction ids over the steps of SpecLwwSet.        *)

\* C35: LwwSet per-element transaction id is monotone: for every fixed
\* element, the stored transaction id never decreases across insert, remove,
\* apply and merge (and an entry is never dropped); an insert with tid <
\* stored tid or a remove with tid <= stored tid returns None and leaves the
\* map unchanged.
C35_LwwSetTidMonotone ==
    [][\A r \in Replicas :
          \A e \in DOMAIN lw[r].elements :
              /\ e \in DOMAIN lw'[r].elements
              /\ lw'[r].elements[e][2] >= lw[r].elements[e][2]
              /\ \A t \in TransactionIds :
                    /\ t < lw[r].elements[e][2] =>
                          /\ LwwSet_insert(lw[r], e, t).result = None
                          /\ LwwSet_insert(lw[r], e, t).state = lw[r]
                    /\ t <= lw[r].elements[e][2] =>
                          /\ LwwSet_remove(lw[r], e, t).result = None
                          /\ LwwSet_remove(lw[r], e, t).state = lw[r]]_vars

\* Witness of C35: a replica has just been asked to insert an element with a
\* transaction id older than the one it stores for a removal of the element,
\* and still stores the removal.
C35_Witness ==
    /\ lwLast.op = "insert"
    /\ lwLast.element \in DOMAIN lw[lwLast.r].elements
    /\ lw[lwLast.r].elements[lwLast.element][1] = FALSE
    /\ lw[lwLast.r].elements[lwLast.element][2] > lwLast.tid

----------------------------------------------------------------------------
(* Pn::merge in PnCounter and PnSet, on the two replicas of SpecReplicaId. *)

\* The Pn a set holds for element e and replica id r; Pn::new() when it has
\* no entry.
PnSet_slot(self, e, r) == PnSet_pn_entry(PnSet_entry(self, e), r)

\* C36: Pn.merge is the pointwise maximum and never lowers a field: after
\* x.merge(y), x.p == max(old x.p, y.p) and x.n == max(old x.n, y.n);
\* consequently in PnCounter and PnSet the (p, n) stored for a fixed
\* (element,) replica slot never decreases in either component across merge.
C36_PnMergeNeverLowers ==
    \A side \in {"a", "b"} :
        LET x == idr[side]
            y == idr[IDOther(side)]
        IN /\ idr.kind = "PnCounter" =>
                 LET merged == PnCounter_merge(x, y)
                 IN \A r \in Replicas :
                       /\ PnCounter_slot(merged, r)[1]
                             = Max(PnCounter_slot(x, r)[1], PnCounter_slot(y, r)[1])
                       /\ PnCounter_slot(merged, r)[2]
                             = Max(PnCounter_slot(x, r)[2], PnCounter_slot(y, r)[2])
                       /\ PnCounter_slot(merged, r)[1] >= PnCounter_slot(x, r)[1]
                       /\ PnCounter_slot(merged, r)[2] >= PnCounter_slot(x, r)[2]
           /\ idr.kind = "PnSet" =>
                 LET merged == PnSet_merge(x, y)
                 IN \A e \in Elements, r \in Replicas :
                       LET old == PnSet_slot(x, e, r)
                           other == PnSet_slot(y, e, r)
                       IN /\ Pn_merge(old, other).p = Max(old.p, other.p)
                          /\ Pn_merge(old, other).n = Max(old.n, other.n)
                          /\ PnSet_slot(merged, e, r) = Pn_merge(old, other)
                          /\ PnSet_slot(merged, e, r).p >= old.p
                          /\ PnSet_slot(merged, e, r).n >= old.n

\* Witness of C36: one set holds an insert and a remove of its own, the other
\* set has merged it in between and holds the insert only; merging the other
\* set back lowers nothing.
C36_Witness ==
    /\ idr.kind = "PnSet"
    /\ \E e \in Elements :
          /\ PnSet_slot(idr.a, e, idr.a.replica_id) = [p |-> 1, n |-> 1]
          /\ PnSet_slot(idr.b, e, idr.a.replica_id) = [p |-> 1, n |-> 0]
    /\ PnSet_merge(idr.a, idr.b) = idr.a

----------------------------------------------------------------------------
(* LwwRegister: merge in both directions, on the replicas of               *)
(* SpecLwwRegisterSet (created with any value and transaction id).         *)

\* C37: LwwRegister merge converges on the observable value: for any two
\* states a and b, including states with equal transaction ids and different
\* values, the register obtained by a.merge(b) and the register obtained by
\* b.merge(a) return the same get() value and the same transaction_id().
C37_LwwRegisterMergeConverges ==
    \A r \in Replicas, s \in Replicas :
        LET a_merged == LwwRegister_merge(lr[r], lr[s])
            b_merged == LwwRegister_merge(lr[s], lr[r])
        IN /\ LwwRegister_get(a_merged) = LwwRegister_get(b_merged)
           /\ LwwRegister_transaction_id(a_merged) = LwwRegister_transaction_id(b_merged)

\* C37, amended: for any two states a and b, a.merge(b) and b.merge(a) return
\* the same transaction_id(), and the same get() value when the transaction
\* ids of a and b differ or their values are equal.
C37_LwwRegisterMergeConvergesUniqueTid ==
    \A r \in Replicas, s \in Replicas :
        LET a == lr[r]
            b == lr[s]
            a_merged == LwwRegister_merge(a, b)
            b_merged == LwwRegister_merge(b, a)
        IN /\ LwwRegister_transaction_id(a_merged) = LwwRegister_transaction_id(b_merged)
           /\ ( \/ LwwRegister_transaction_id(a) # LwwRegister_transaction_id(b)
                \/ LwwRegister_get(a) = LwwRegister_get(b) )
                 => LwwRegister_get(a_merged) = LwwRegister_get(b_merged)

\* Witness of C37: a replica has just merged a state with an older
\* transaction id and another value and kept its own; merged the other way
\* round, the other state gives the same value and transaction id.
C37_Witness ==
    /\ lrLast.op = "merge"
    /\ lr[lrLast.s].transaction_id < lrLast.before.transaction_id
    /\ lr[lrLast.s].value # lrLast.before.value
    /\ lr[lrLast.r] = lrLast.before
    /\ LwwRegister_merge(lr[lrLast.s], lrLast.before) = lr[lrLast.r]

----------------------------------------------------------------------------
(* PnSet, a mix of operation-based and state-based replication: one        *)
(* replica is written by insert and remove; two fresh sets receive its     *)
(* updates, each through any mixture of apply (of any operation returned   *)
(* so far, in any order, any number of times) and merge (of the written    *)
(* replica's current state, or of the other receiver's).                   *)

\* The receivers; receiver i is created with replica id i, the written
\* replica with replica id 1.
PnSetReceivers == {2, 3}

PXInit ==
    /\ pxSrc = PnSet_new(1)
    /\ pxOps = << >>
    /\ pxRecv = [i \in PnSetReceivers |->
                    [state |-> PnSet_new(i), got |-> {},
                     applied |-> FALSE, merged |-> FALSE]]
    /\ gc = Idle /\ gcInbox = Idle /\ gcAmounts = Idle
    /\ pc = Idle /\ pcInbox = Idle /\ pcAmounts = Idle
    /\ tp = Idle /\ tpLast = Idle
    /\ lw = Idle /\ lwLast = Idle
    /\ ps = Idle /\ psHist = Idle /\ psSeen = Idle
    /\ paBase = Idle /\ paCur = Idle /\ paApplied = Idle
    /\ reg = Idle /\ regInit = Idle /\ regPool = Idle /\ regApplied = Idle
    /\ lr = Idle /\ lrLast = Idle
    /\ gmIn = Idle /\ gmAcc = Idle /\ gmDone = Idle
    /\ gv = Idle /\ gvHist = Idle /\ gvSeen = Idle
    /\ idr = Idle /\ idrSteps = Idle
    /\ gs = Idle /\ gsLast = Idle
    /\ taBase = Idle /\ taCur = Idle /\ taApplied = Idle
    /\ laBase = Idle /\ laCur = Idle /\ laApplied = Idle
    /\ pv = Idle /\ pvHist = Idle /\ pvSeen = Idle
    /\ pmIn = Idle /\ pmAcc = Idle /\ pmDone = Idle

PXInsert(e) ==
    /\ Len(pxOps) < MaxSetCalls
    /\ pxSrc' = PnSet_insert(pxSrc, e).state
    /\ pxOps' = Append(pxOps, PnSet_insert(pxSrc, e).operation)
    /\ UNCHANGED <<pxRecv, pxOthers>>

PXRemove(e) ==
    /\ Len(pxOps) < MaxSetCalls
    /\ pxSrc' = PnSet_remove(pxSrc, e).state
    /\ pxOps' = Append(pxOps, PnSet_remove(pxSrc, e).operation)
    /\ UNCHANGED <<pxRecv, pxOthers>>

\* Receiver i applies the operation of call k: a new one, or one it received
\* before.
PXApply(i, k) ==
    /\ k \in 1..Len(pxOps)
    /\ pxRecv' = [pxRecv EXCEPT ![i] =
                     [state |-> PnSet_apply(pxRecv[i].state, pxOps[k]),
                      got |-> pxRecv[i].got \cup {k},
                      applied |-> TRUE,
                      merged |-> pxRecv[i].merged]]
    /\ UNCHANGED <<pxSrc, pxOps, pxOthers>>

\* Receiver i merges a copy of the written replica, and with it receives
\* every call made so far.
PXMerge(i) ==
    /\ pxRecv' = [pxRecv EXCEPT ![i] =
                     [state |-> PnSet_merge(pxRecv[i].state, pxSrc),
                      got |-> 1..Len(pxOps),
                      applied |-> pxRecv[i].applied,
                      merged |-> TRUE]]
    /\ UNCHANGED <<pxSrc, pxOps, pxOthers>>

\* Receiver i merges a copy of receiver j, and with it receives whatever j
\* has received.
PXMergeReceiver(i, j) ==
    /\ i # j
    /\ pxRecv' = [pxRecv EXCEPT ![i] =
                     [state |-> PnSet_merge(pxRecv[i].state, pxRecv[j].state),
                      got |-> pxRecv[i].got \cup pxRecv[j].got,
                      applied |-> pxRecv[i].applied \/ pxRecv[j].applied,
                      merged |-> TRUE]]
    /\ UNCHANGED <<pxSrc, pxOps, pxOthers>>

PXNext ==
    \/ \E e \in Elements : PXInsert(e)
    \/ \E e \in Elements : PXRemove(e)
    \/ \E i \in PnSetReceivers, k \in 1..MaxSetCalls : PXApply(i, k)
    \/ \E i \in PnSetReceivers : PXMerge(i)
    \/ \E i \in PnSetReceivers, j \in PnSetReceivers : PXMergeReceiver(i, j)

SpecPnSetMixed == PXInit /\ [][PXNext]_vars

\* C38: PnSet operation-based and state-based replication are equivalent: a
\* fresh set that has applied every operation returned by the replica's
\* insert / remove calls (in any order, with duplicates), or received them
\* through any mixture of apply and merge, is equal to a fresh set that
\* merges the replica's final state; and receivers that have received the
\* same updates, through any mixture of apply and merge, are in equal states.
C38_PnSetOperationStateEquivalent ==
    /\ \A i \in PnSetReceivers :
          pxRecv[i].got = 1..Len(pxOps) =>
              PnSet_eq(pxRecv[i].state, PnSet_merge(PnSet_new(i), pxSrc))
    /\ \A i \in PnSetReceivers, j \in PnSetReceivers :
          pxRecv[i].got = pxRecv[j].got =>
              PnSet_eq(pxRecv[i].state, pxRecv[j].state)

\* Witness of C38: the replica inserted an element twice and removed it; one
\* receiver has only applied operations, the other has only merged; both
\* have received everything and hold the replica's final Pn for the element.
C38_Witness ==
    /\ pxOps = <<PnSetOp(1, 1, [p |-> 1, n |-> 0]),
                 PnSetOp(1, 1, [p |-> 2, n |-> 0]),
                 PnSetOp(1, 1, [p |-> 2, n |-> 1])>>
    /\ pxRecv[2].got = {1, 2, 3} /\ pxRecv[2].applied /\ ~pxRecv[2].merged
    /\ pxRecv[3].got = {1, 2, 3} /\ pxRecv[3].merged /\ ~pxRecv[3].applied
    /\ PnSet_eq(pxRecv[2].state, pxRecv[3].state)
    /\ pxRecv[2].state.elements = (1 :> (1 :> [p |-> 2, n |-> 1]))

====
